---------------------------- MODULE Spec2Model ----------------------------
(***************************************************************************)
(* Semantic Similarity Analyzer: the analysis run of POST /api/analyze     *)
(* (server/routes.ts), the text segmenter (detectSections, chunkText), the *)
(* browser-side singleton OpenAIClientService, the keyword coverage and    *)
(* section improvements, the score predictions (client/src/lib/            *)
(* analysis.ts), the enhancement step (POST /api/enhance), the            *)
(* browser-side rate limiter and the contextual diff (client/src/lib/      *)
(* security.ts) and the KeywordInput component (client/src/components/     *)
(* keyword-input.tsx).                                                     *)
(*                                                                         *)
(* A text is a sequence of atoms.  An atom is one whitespace-free token:   *)
(*   "a" "b" "w" "k3" ...  a plain word ("L": a word of 50000 characters)   *)
(*   "#"                   a run of 1..6 hashes (one hash here)            *)
(*   "H"                   a complete HTML heading element <h2>t</h2>      *)
(*   "NL"                  a newline character                             *)
(* Two adjacent atoms that are not "NL" are separated by one space.        *)
(* Offsets into a text count atoms (0-based, as JavaScript string offsets   *)
(* are 0-based), word indexes count the entries of text.split(/\s+/).      *)
(*                                                                         *)
(* Numbers that JavaScript holds as doubles are records [nan, v]: v is an  *)
(* integer in a fixed unit named at each definition, nan marks NaN.        *)
(***************************************************************************)
EXTENDS Integers, Sequences, FiniteSets, TLC

VARIABLES
    \* ---- the text segmenter (pure functions applied to one input) ----
    segText,     \* the input document
    segPc,       \* "input", or the function that has been applied
    segOut,      \* what that function returned
    \* ---- one run of POST /api/analyze ----
    req,         \* req.body
    pc,          \* "start" | "keywords" | "docs" | "coverage" | "done"
    calls,       \* every provider call issued so far, in issue order
    embOf,       \* the embeddings the run has received, by text
    centroid,    \* normalizedCentroid (<<>> before it is computed)
    mainChunks,  \* mainChunkResults / [mainFullChunk]
    compChunks,  \* competitorChunkResults / [competitorFullChunk]
    scores,      \* [main, comp]: mainCopyScore, competitorCopyScore
    kwIdx,       \* position of the for-loop of analyzeKeywordCoverage
    kwAnalysis,  \* results of analyzeKeywordCoverage so far
    lastError,   \* the error object the catch block received
    response,    \* what res.json / res.status().json sent
    \* ---- the browser-side singleton openAIClient and its callers ----
    openai,      \* OpenAIClientService.openai: the credential held, or Null
    cpc,         \* per caller: its request and its position in handleSubmit
    ccalls,      \* provider calls issued through the singleton
    coutcome,    \* per caller: how its run ended
    \* ---- a pure function of the analysis applied to one input ----
    fnIn,        \* the arguments
    fnOut,       \* what the function returned
    \* ---- one request of POST /api/enhance ----
    enhReq,      \* req.body
    enhPc,       \* "idle" | "waiting" | "done"
    enhAnswer,   \* what the completion provider answered
    enhOut,      \* what res.json / res.status().json sent, or enhance returned
    \* ---- the browser-side rateLimiter (ClientRateLimiter) ----
    attempts,    \* ClientRateLimiter.attempts
    now,         \* Date.now()
    granted,     \* every time at which canMakeRequest returned true
    lastCall,    \* the latest canMakeRequest call: [made, at, result], what
                 \* getResetTime returns after it (reset), and whether the
                 \* call before it was denied and its reset (prev)
    \* ---- the KeywordInput component ----
    kiValue,     \* the value prop: the textarea's text, a sequence of characters
    keywordRoles,\* the component's state keywordRoles
    kiHanded,    \* the latest argument of onKeywordsChange
    \* ---- the while loop of chunkText, one iteration at a time ----
    loopIn,      \* [words, chunkSize, overlap]
    loopPc,      \* "idle" | "while" | "done"
    loopStart,   \* startIndex
    loopChunks,  \* chunks
    \* ---- OpenAIClientService under arbitrary calls of its methods ----
    svcReady,    \* whether initialize has succeeded since construction or
                 \* since the latest destroy
    svcLast,     \* the latest call or event: "initialize", "rejected", ...
    \* ---- the loop of calculateContextualDiff, one iteration at a time ----
    diffIn,      \* [originalWords, enhancedWords]
    diffPc,      \* "idle" | "while" | "done" | "returned"
    diffI,       \* i
    diffJ,       \* j
    diffSegments \* segments

segVars == <<segText, segPc, segOut>>
runVars == <<req, pc, calls, embOf, centroid, mainChunks, compChunks, scores,
             kwIdx, kwAnalysis, lastError, response>>
cliVars == <<openai, cpc, ccalls, coutcome>>
fnVars == <<fnIn, fnOut>>
enhVars == <<enhReq, enhPc, enhAnswer, enhOut>>
limVars == <<attempts, now, granted, lastCall>>
kiVars == <<kiValue, keywordRoles, kiHanded>>
loopVars == <<loopIn, loopPc, loopStart, loopChunks>>
svcVars == <<svcReady, svcLast>>
diffVars == <<diffIn, diffPc, diffI, diffJ, diffSegments>>
restVars == <<fnVars, enhVars, limVars, kiVars, loopVars, svcVars, diffVars>>
vars == <<segVars, runVars, cliVars, restVars>>

Null == "null"

(***************************************************************************)
(* Bounds of the model.                                                    *)
(***************************************************************************)
MaxLines == 5        \* lines of a structured input document
MaxWords == 1000     \* words of an unstructured input document
MaxKeywords == 2     \* keywords of a valid request
MaxCallers == 2      \* concurrent callers of the browser-side client

(***************************************************************************)
(* Arithmetic helpers.                                                     *)
(***************************************************************************)
Min(x, y) == IF x <= y THEN x ELSE y
Max(x, y) == IF x >= y THEN x ELSE y
Abs(x) == IF x < 0 THEN -x ELSE x

\* Math.round(n / d) for d > 0: the nearest integer, halves towards +infinity.
MathRound(n, d) == (2 * n + d) \div (2 * d)

RECURSIVE SqrtSearch(_, _, _)
SqrtSearch(n, lo, hi) ==
    IF lo >= hi THEN lo
    ELSE LET mid == (lo + hi + 1) \div 2
         IN  IF mid * mid <= n THEN SqrtSearch(n, mid, hi)
             ELSE SqrtSearch(n, lo, mid - 1)

\* floor(Math.sqrt(n)) for 0 <= n < 2^31
Sqrt(n) == SqrtSearch(n, 0, 46340)

RECURSIVE SumSeq(_)
SumSeq(s) == IF s = <<>> THEN 0 ELSE Head(s) + SumSeq(Tail(s))

(***************************************************************************)
(* Texts.                                                                  *)
(***************************************************************************)
NL == "NL"

IsSpace(text, p) == text[p] = NL

\* String.prototype.trim on the slice lo..hi of text: the positions left.
\* <<lo, lo - 1>> when nothing is left.
TrimSpan(text, lo, hi) ==
    LET keep == {p \in lo..hi : ~IsSpace(text, p)}
    IN  IF keep = {} THEN <<lo, lo - 1>>
        ELSE <<CHOOSE p \in keep : \A q \in keep : p <= q,
               CHOOSE p \in keep : \A q \in keep : p >= q>>

SpanText(text, span) == SubSeq(text, span[1], span[2])

\* The elements of a finite set of integers in increasing order.
RECURSIVE SortedSeq(_)
SortedSeq(S) ==
    IF S = {} THEN <<>>
    ELSE LET m == CHOOSE x \in S : \A y \in S : x <= y
         IN  <<m>> \o SortedSeq(S \ {m})

\* text.split('\n'): the lines as spans <<first, last>> of positions
\* (an empty line has last = first - 1).
SplitLines(text) ==
    LET nls == SortedSeq({p \in 1..Len(text) : text[p] = NL})
        n == Len(nls)
    IN  [k \in 1..(n + 1) |->
            <<IF k = 1 THEN 1 ELSE nls[k - 1] + 1,
              IF k = n + 1 THEN Len(text) ELSE nls[k] - 1>>]

\* text.split(/\s+/): the words.  Leading or trailing whitespace yields an
\* empty first or last word, and the empty text yields one empty word.
SplitWords(text) ==
    IF Len(text) = 0 THEN <<"">>
    ELSE (IF text[1] = NL THEN <<"">> ELSE <<>>)
         \o SelectSeq(text, LAMBDA x : x # NL)
         \o (IF text[Len(text)] = NL THEN <<"">> ELSE <<>>)

\* z.string().max(50000): the longest text a request may carry
MaxTextLength == 50000

\* a word of MaxTextLength characters
Long == "L"

\* text.length in characters: an "H" is <h2>t</h2> (10 characters), a Long
\* word has MaxTextLength of them, every other atom is one character, plus
\* the separating spaces.
CharLen(text) ==
    LET n == Len(text)
    IN  n + 9 * Cardinality({p \in 1..n : text[p] = "H"})
          + (MaxTextLength - 1) * Cardinality({p \in 1..n : text[p] = Long})
          + Cardinality({p \in 1..(n - 1) : text[p] # NL /\ text[p + 1] # NL})


(***************************************************************************)
(* The text segmenter: server/routes.ts detectSections and its tiers.      *)
(* A TextSection carries, besides the fields of the source, the ghost      *)
(* field span: the positions of the input its content was cut from.        *)
(***************************************************************************)
Section(title, text, span, startIndex, endIndex, level, type) ==
    [title |-> title, content |-> SpanText(text, span), span |-> span,
     startIndex |-> startIndex, endIndex |-> endIndex, level |-> level,
     type |-> type]

NonEmpty(sec) == Len(sec.content) > 0

\* /<h([1-6])[^>]*>(.*?)<\/h\1>/gi: the offsets (match.index) of the matches
HtmlMatches(text) ==
    LET ps == SortedSeq({p \in 1..Len(text) : text[p] = "H"})
    IN  [k \in 1..Len(ps) |-> ps[k] - 1]

\* HtmlSectionStart as it would be if every section started at its own
\* heading (a faulty variant, for comparison)
HtmlSectionStartAtHeading(matches, k) == matches[k]

\* where the section of the k-th match begins: 0 for the first one, and the
\* start of the match for the others (currentIndex = contentEnd)
HtmlSectionStart(matches, k) == IF k = 1 THEN 0 ELSE matches[k]

detectHtmlSections(text) ==
    LET matches == HtmlMatches(text)
        n == Len(matches)
        contentEnd(k) == IF k < n THEN matches[k + 1] ELSE Len(text)
        sec(k) ==
            LET currentIndex == HtmlSectionStart(matches, k)
            IN  Section(<<"t">>, text,
                        TrimSpan(text, currentIndex + 1, contentEnd(k)),
                        currentIndex, contentEnd(k), 2, "heading")
    IN  IF n = 0 THEN <<>>
        ELSE SelectSeq([k \in 1..n |-> sec(k)], NonEmpty)

\* /^(#{1,6})\s+(.+)$/ on one line, given as a span
IsMarkdownHeading(text, line) ==
    /\ line[2] - line[1] + 1 >= 2
    /\ text[line[1]] = "#"

\* the first line of the content collected for the heading on line h:
\* currentContent is emptied at every heading, so the lines before the
\* first heading are collected and then discarded
MarkdownContentFrom(h) == h + 1

detectMarkdownSections(text) ==
    LET lines == SplitLines(text)
        L == Len(lines)
        hs == SortedSeq({k \in 1..L : IsMarkdownHeading(text, lines[k])})
        n == Len(hs)
        lastLine(i) == IF i < n THEN hs[i + 1] - 1 ELSE L
        span(i) ==
            LET from == MarkdownContentFrom(hs[i])
            IN  IF from > lastLine(i) THEN <<1, 0>>
                ELSE TrimSpan(text, lines[from][1], lines[lastLine(i)][2])
        sec(i) ==
            Section(SubSeq(text, lines[hs[i]][1] + 1, lines[hs[i]][2]), text,
                    span(i), hs[i] - 1, hs[i] - 1, 1, "heading")
    IN  SelectSeq([i \in 1..n |-> sec(i)], NonEmpty)

\* text.split(/\n\s*\n/).filter(p => p.trim().length > 0), each trimmed: a
\* separator is a run of two or more newlines, so a paragraph starts at a
\* position that is not whitespace and follows the start of the text, one
\* leading newline, or two newlines
ParagraphSpans(text) ==
    LET n == Len(text)
        starts == {p \in 1..n :
                     /\ text[p] # NL
                     /\ \/ p = 1
                        \/ text[p - 1] = NL /\ (p = 2 \/ text[p - 2] = NL)}
        ends == {p \in 1..n :
                     /\ text[p] # NL
                     /\ \/ p = n
                        \/ text[p + 1] = NL /\ (p = n - 1 \/ text[p + 2] = NL)}
        ss == SortedSeq(starts)
        es == SortedSeq(ends)
    IN  [k \in 1..Len(ss) |-> <<ss[k], es[k]>>]

\* the least number of paragraphs for which the paragraph tier answers
MinParagraphs == 2

detectParagraphSections(text) ==
    LET paragraphs == ParagraphSpans(text)
    IN  IF Len(paragraphs) < MinParagraphs THEN <<>>
        ELSE [k \in 1..Len(paragraphs) |->
                Section(<<"Paragraph", ToString(k)>>, text, paragraphs[k],
                        (k - 1) * 100, k * 100, 1, "paragraph")]

FullContent(text) ==
    [title |-> <<"Full Content">>, content |-> text, span |-> <<1, Len(text)>>,
     startIndex |-> 0, endIndex |-> Len(SplitWords(text)) - 1, level |-> 1,
     type |-> "chunk"]

\* detectSections as it would be if the paragraph tier were tried before the
\* headings (a faulty variant, for comparison)
detectSectionsParagraphsFirst(text) ==
    LET htmlSections == detectHtmlSections(text)
        markdownSections == detectMarkdownSections(text)
        paragraphSections == detectParagraphSections(text)
    IN  IF Len(paragraphSections) > 1 THEN paragraphSections
        ELSE IF Len(htmlSections) > 1 THEN htmlSections
        ELSE IF Len(markdownSections) > 1 THEN markdownSections
        ELSE <<FullContent(text)>>

detectSections(text) ==
    LET htmlSections == detectHtmlSections(text)
        markdownSections == detectMarkdownSections(text)
        paragraphSections == detectParagraphSections(text)
    IN  IF Len(htmlSections) > 1 THEN htmlSections
        ELSE IF Len(markdownSections) > 1 THEN markdownSections
        ELSE IF Len(paragraphSections) > 1 THEN paragraphSections
        ELSE <<FullContent(text)>>

(***************************************************************************)
(* The fixed-window splitter: the while loop of chunkText.                 *)
(***************************************************************************)
ChunkSize == 500
Overlap == 100

\* NextStart as it would be if the next window started one word late (a
\* faulty variant, for comparison)
NextStartLate(endIndex, overlap) == endIndex - overlap + 1

\* NextStart as it would be if the next window started one word early (a
\* faulty variant, for comparison)
NextStartEarly(endIndex, overlap) == endIndex - overlap - 1

\* startIndex = endIndex - overlap
NextStart(endIndex, overlap) == endIndex - overlap

RECURSIVE FixedWindows(_, _, _, _)
FixedWindows(words, startIndex, chunkSize, overlap) ==
    IF ~(startIndex < Len(words)) THEN <<>>
    ELSE LET endIndex == Min(startIndex + chunkSize, Len(words))
             chunk == [text |-> SubSeq(words, startIndex + 1, endIndex),
                       startIndex |-> startIndex, endIndex |-> endIndex - 1]
         IN  IF endIndex >= Len(words) THEN <<chunk>>
             ELSE <<chunk>> \o FixedWindows(words, NextStart(endIndex, overlap),
                                            chunkSize, overlap)

\* whether chunkText hands back the sections of detectSections
UsesSections(sections) == Len(sections) > 1 /\ sections[1].type # "chunk"

\* server/routes.ts chunkText
chunkText(text, chunkSize, overlap) ==
    LET sections == detectSections(text)
    IN  IF UsesSections(sections)
        THEN [k \in 1..Len(sections) |->
                [text |-> sections[k].content,
                 startIndex |-> sections[k].startIndex,
                 endIndex |-> sections[k].endIndex]]
        ELSE FixedWindows(SplitWords(text), 0, chunkSize, overlap)

\* OpenAIClientService.chunkText: the fixed windows only
serviceChunkText(text, chunkSize, overlap) ==
    FixedWindows(SplitWords(text), 0, chunkSize, overlap)

(***************************************************************************)
(* Input documents of the segmenter.                                       *)
(***************************************************************************)
LineKinds == {<<>>, <<"w">>, <<"#", "w">>, <<"H">>, <<"w", "H">>}

RECURSIVE JoinLines(_)
JoinLines(ls) ==
    IF Len(ls) = 0 THEN <<>>
    ELSE IF Len(ls) = 1 THEN ls[1]
    ELSE ls[1] \o <<NL>> \o JoinLines(Tail(ls))

PlainDoc(n) == [i \in 1..n |-> "w"]

StructuredDocs ==
    {JoinLines(ls) : ls \in UNION {[1..n -> LineKinds] : n \in 1..MaxLines}}

SegDocs == StructuredDocs \cup {PlainDoc(n) : n \in 1..MaxWords}


(***************************************************************************)
(* Values the variables of a part hold while another part is checked.      *)
(***************************************************************************)
SegIdle == segText = <<>> /\ segPc = "idle" /\ segOut = <<>>

NoResponse == [kind |-> "none"]
NoError == [status |-> 0, code |-> "none", message |-> {}]
NoScores == <<>>

RunIdle ==
    /\ req = <<>> /\ pc = "idle" /\ calls = <<>> /\ embOf = {}
    /\ centroid = <<>> /\ mainChunks = <<>> /\ compChunks = <<>>
    /\ scores = NoScores /\ kwIdx = 0 /\ kwAnalysis = <<>>
    /\ lastError = NoError /\ response = NoResponse

CliIdle == openai = Null /\ cpc = <<>> /\ ccalls = {} /\ coutcome = <<>>

\* the result slot of a function: empty, or holding the returned value
NotReturned == [kind |-> "none"]
Returned(value) == [kind |-> "returned", value |-> value]

FnIdle == fnIn = Null /\ fnOut = NotReturned

EnhIdle ==
    /\ enhReq = Null /\ enhPc = "idle"
    /\ enhAnswer = [kind |-> "none"] /\ enhOut = [kind |-> "none"]

\* what getResetTime returns: null, or a date
NoDate == [kind |-> "null", time |-> 0]
DateOf(time) == [kind |-> "date", time |-> time]

\* canMakeRequest has not been called
NoCall ==
    [made |-> FALSE, at |-> 0, result |-> FALSE, reset |-> NoDate,
     prev |-> [denied |-> FALSE, reset |-> NoDate]]

LimIdle == attempts = <<>> /\ now = 0 /\ granted = <<>> /\ lastCall = NoCall

NotHanded == [kind |-> "none"]

KiIdle == kiValue = <<>> /\ keywordRoles = <<>> /\ kiHanded = NotHanded

LoopIdle ==
    loopIn = Null /\ loopPc = "idle" /\ loopStart = 0 /\ loopChunks = <<>>

SvcIdle == svcReady = FALSE /\ svcLast = "none"

DiffIdle ==
    /\ diffIn = Null /\ diffPc = "idle" /\ diffI = 0 /\ diffJ = 0
    /\ diffSegments = <<>>

RestIdle ==
    FnIdle /\ EnhIdle /\ LimIdle /\ KiIdle /\ LoopIdle /\ SvcIdle /\ DiffIdle

(***************************************************************************)
(* The segmenter applied to one input document.                            *)
(***************************************************************************)
SegInit ==
    /\ segText \in SegDocs
    /\ segPc = "input"
    /\ segOut = <<>>
    /\ RunIdle /\ CliIdle /\ RestIdle

DetectSections ==
    /\ segPc = "input"
    /\ segOut' = detectSections(segText)
    /\ segPc' = "detectSections"
    /\ UNCHANGED <<segText, runVars, cliVars, restVars>>

ChunkText ==
    /\ segPc = "input"
    /\ segOut' = chunkText(segText, ChunkSize, Overlap)
    /\ segPc' = "chunkText"
    /\ UNCHANGED <<segText, runVars, cliVars, restVars>>

ServiceChunkText ==
    /\ segPc = "input"
    /\ segOut' = serviceChunkText(segText, ChunkSize, Overlap)
    /\ segPc' = "serviceChunkText"
    /\ UNCHANGED <<segText, runVars, cliVars, restVars>>

SegNext == DetectSections \/ ChunkText \/ ServiceChunkText

SegSpec == SegInit /\ [][SegNext]_vars


(***************************************************************************)
(* Claims about the segmenter.                                             *)
(***************************************************************************)
\* the number of words two windows of word indexes share
SharedWords(c, d) ==
    Max(0, Min(c.endIndex, d.endIndex) - Max(c.startIndex, d.startIndex) + 1)

\* the fixed-window loop has produced segOut
FixedWindowsRan ==
    \/ segPc = "serviceChunkText"
    \/ segPc = "chunkText" /\ ~UsesSections(detectSections(segText))

\* C7: for a document of N words cut by the fixed-window splitter (chunk
\* size 500, overlap 100) the windows are in document order, the first
\* starts at the first word, the last ends at the last word, every word is
\* in some window, and two consecutive windows share exactly 100 words,
\* except possibly the last pair.
C7_FixedWindowsCover ==
    FixedWindowsRan =>
        LET words == SplitWords(segText)
            N == Len(words)
            n == Len(segOut)
        IN  /\ n >= 1
            /\ segOut[1].startIndex = 0
            /\ segOut[n].endIndex = N - 1
            /\ \A k \in 1..n :
                 segOut[k].text
                   = SubSeq(words, segOut[k].startIndex + 1, segOut[k].endIndex + 1)
            /\ \A k \in 1..(n - 1) :
                 /\ segOut[k].startIndex < segOut[k + 1].startIndex
                 /\ segOut[k].endIndex < segOut[k + 1].endIndex
            /\ \A i \in 0..(N - 1) :
                 \E k \in 1..n : segOut[k].startIndex <= i /\ i <= segOut[k].endIndex
            /\ \A k \in 1..(n - 2) : SharedWords(segOut[k], segOut[k + 1]) = Overlap

\* a document long enough for three windows: the first pair is not the last
C7_Witness ==
    /\ segPc = "serviceChunkText"
    /\ Len(segOut) = 3
    /\ SharedWords(segOut[1], segOut[2]) = Overlap

\* the positions of the lines that are Markdown headings
MarkdownHeadingPositions(text) ==
    LET lines == SplitLines(text)
    IN  UNION {lines[k][1]..lines[k][2] :
                 k \in {j \in 1..Len(lines) : IsMarkdownHeading(text, lines[j])}}

\* the words of a document that are not the markup or title of a heading
\* of the tier that answered
BodyWords(text, sections) ==
    LET markdown == /\ Len(sections) > 1
                    /\ sections[1].type = "heading"
                    /\ Len(detectHtmlSections(text)) <= 1
    IN  {p \in 1..Len(text) : text[p] # NL}
          \ (IF markdown THEN MarkdownHeadingPositions(text) ELSE {})

InSpan(p, sec) == sec.span[1] <= p /\ p <= sec.span[2]

\* C8: the sections detectSections returns are in document order and do not
\* overlap in content, and every word of the document belongs to the
\* content of exactly one section.
C8_SectionsPartitionWords ==
    segPc = "detectSections" =>
        /\ \A k \in 1..(Len(segOut) - 1) : segOut[k].span[2] < segOut[k + 1].span[1]
        /\ \A p \in BodyWords(segText, segOut) :
             Cardinality({k \in 1..Len(segOut) : InSpan(p, segOut[k])}) = 1

\* the non-empty paragraphs of a text, counted from its blank lines: a new
\* paragraph begins at a word that follows two or more newlines and some
\* earlier word
CountParagraphs(text) ==
    LET wordsAt == {p \in 1..Len(text) : text[p] # NL}
        breaks == {p \in wordsAt :
                     /\ p >= 3 /\ text[p - 1] = NL /\ text[p - 2] = NL
                     /\ \E q \in wordsAt : q < p}
    IN  IF wordsAt = {} THEN 0 ELSE 1 + Cardinality(breaks)

NoHeadings(text) == \A p \in 1..Len(text) : text[p] \notin {"H", "#"}

\* C9: detectSections answers with the first tier that succeeds: the
\* heading sections when the markup tier finds at least 2 sections, else the
\* paragraph sections when there are at least 2 non-empty paragraphs, else
\* the single section "Full Content"; a document without headings and with
\* n >= 2 paragraphs gives n paragraph sections "Paragraph 1" .. "Paragraph n".
C9_TiersInOrder ==
    segPc = "detectSections" =>
        LET html == detectHtmlSections(segText)
            markdown == detectMarkdownSections(segText)
            n == CountParagraphs(segText)
            paragraphs ==
                /\ Len(segOut) = n
                /\ \A k \in 1..n :
                     /\ segOut[k].type = "paragraph"
                     /\ segOut[k].title = <<"Paragraph", ToString(k)>>
        IN  /\ IF Len(html) >= 2 THEN segOut = html
               ELSE IF Len(markdown) >= 2 THEN segOut = markdown
               ELSE IF n >= 2 THEN paragraphs
               ELSE /\ Len(segOut) = 1
                    /\ segOut[1].title = <<"Full Content">>
                    /\ segOut[1].type = "chunk"
                    /\ segOut[1].content = segText
            /\ (Len(html) >= 2 \/ Len(markdown) >= 2) =>
                 \A k \in 1..Len(segOut) : segOut[k].type = "heading"
            /\ (NoHeadings(segText) /\ n >= 2) => paragraphs

\* a document of three paragraphs and no heading has been segmented
C9_Witness ==
    /\ segPc = "detectSections"
    /\ NoHeadings(segText)
    /\ CountParagraphs(segText) = 3
    /\ Len(segOut) = 3

HeadingPositions(text) == SortedSeq({p \in 1..Len(text) : text[p] = "H"})

\* what C10 says of every section but the start of its content
HtmlSectionsReconstruct(text, out) ==
    LET hs == HeadingPositions(text)
        n == Len(hs)
    IN  /\ Len(out) = n
        /\ \A k \in 1..n :
             /\ out[k].type = "heading"
             /\ {p \in 1..Len(text) : text[p] = "H" /\ InSpan(p, out[k])} = {hs[k]}
             /\ out[k].endIndex = (IF k < n THEN hs[k + 1] - 1 ELSE Len(text))
             /\ out[k].content = SpanText(text, out[k].span)
        /\ \A k \in 1..(n - 1) : out[k].span[2] < out[k + 1].span[1]
        /\ \A p \in 1..Len(text) :
             text[p] # NL => \E k \in 1..n : InSpan(p, out[k])

HasHtmlHeadings(text) == Len(HeadingPositions(text)) >= 2

\* C10 as stated: a document with n >= 2 HTML headings is cut into n
\* sections, one per heading in document order, each running from its
\* heading to the next heading or the end of the document, and the contents
\* in order reconstruct the body.
C10_EachFromItsHeading ==
    (segPc = "detectSections" /\ HasHtmlHeadings(segText)) =>
        /\ HtmlSectionsReconstruct(segText, segOut)
        /\ \A k \in 1..Len(segOut) :
             segOut[k].span[1] = HeadingPositions(segText)[k]

\* C10 as amended: the same, but the first section runs from the start of
\* the document, so that it also holds the text before the first heading.
C10_FirstFromDocumentStart ==
    (segPc = "detectSections" /\ HasHtmlHeadings(segText)) =>
        /\ HtmlSectionsReconstruct(segText, segOut)
        /\ segOut[1].startIndex = 0
        /\ \A k \in 2..Len(segOut) :
             /\ segOut[k].startIndex = HeadingPositions(segText)[k] - 1
             /\ segOut[k].span[1] = HeadingPositions(segText)[k]

\* three headings, and a word before the first of them
C10_Witness ==
    /\ segPc = "detectSections"
    /\ Len(HeadingPositions(segText)) = 3
    /\ segText[1] = "w"
    /\ Len(segOut) = 3
    /\ segOut[1].span[1] = 1

(***************************************************************************)
(* Numbers.  A JavaScript number is NaN or a value v in fixed point:       *)
(* cosines and coordinates of unit vectors count 1/Scale, weights count    *)
(* tenths, scores count hundredths of a percent.  The only non-finite      *)
(* value the arithmetic below can produce is 0 / 0 = NaN.                  *)
(***************************************************************************)
Scale == 100 * 100

NaN == [nan |-> TRUE, v |-> 0]
Num(v) == [nan |-> FALSE, v |-> v]

Dot(a, b) == SumSeq([i \in 1..Len(a) |-> a[i] * b[i]])

\* the weighted sum of the keyword embeddings, in tenths
WeightedCentroid(keywordEmbeddings) ==
    LET dimensions == Len(keywordEmbeddings[1].embedding)
    IN  [i \in 1..dimensions |->
           SumSeq([k \in 1..Len(keywordEmbeddings) |->
                     keywordEmbeddings[k].embedding[i] * keywordEmbeddings[k].weight])]

\* the weighted sum left as it is, not divided by its magnitude (a faulty
\* variant, for comparison)
CentroidUnnormalized(weightedCentroid) ==
    [i \in 1..Len(weightedCentroid) |-> Num((weightedCentroid[i] * Scale) \div 10)]

\* weightedCentroid.map(val => val / magnitude): no guard on magnitude = 0
NormalizeCentroid(weightedCentroid) ==
    LET squares == Dot(weightedCentroid, weightedCentroid)
    IN  [i \in 1..Len(weightedCentroid) |->
           IF squares = 0 THEN NaN
           ELSE Num(MathRound(weightedCentroid[i] * Scale * 100,
                              Sqrt(squares * Scale)))]

\* an embedding of the provider as a vector of numbers
AsNumbers(embedding) == [i \in 1..Len(embedding) |-> Num(embedding[i] * Scale)]

\* dotProduct / (Math.sqrt(normA) * Math.sqrt(normB)); a: numbers, b: embedding
cosineSimilarity(a, b) ==
    IF \E i \in 1..Len(a) : a[i].nan THEN NaN
    ELSE LET dotProduct == SumSeq([i \in 1..Len(a) |-> a[i].v * b[i]])
             normA == SumSeq([i \in 1..Len(a) |-> a[i].v * a[i].v])
             normB == Dot(b, b)
             denominator == (Sqrt(normA) * Sqrt(normB * Scale * Scale)) \div Scale
         IN  IF denominator = 0 THEN NaN
             ELSE Num(MathRound(dotProduct * Scale, denominator))

\* cosine * 100, as a score
TimesHundred(c) == IF c.nan THEN NaN ELSE Num((c.v * 100 * 100) \div Scale)

\* Math.round(cosine * 1000) / 10, as a score
RoundedChunkScore(c) ==
    IF c.nan THEN NaN ELSE Num(MathRound(c.v * 1000, Scale) * 10)

\* Math.round(score * 10) / 10
RoundToTenth(s) == IF s.nan THEN NaN ELSE Num(MathRound(s.v, 10) * 10)

\* the first entry in the place of the mean (a faulty variant, for comparison)
FirstEntry(xs) == IF Len(xs) = 0 THEN NaN ELSE xs[1]

\* xs.reduce((sum, x) => sum + x, 0) / xs.length
Mean(xs) ==
    IF Len(xs) = 0 \/ \E k \in 1..Len(xs) : xs[k].nan THEN NaN
    ELSE Num(MathRound(SumSeq([k \in 1..Len(xs) |-> xs[k].v]), Len(xs)))

\* gap > 0 ? "... more aligned ..." : "... less aligned ...", with
\* Math.abs(gap).toFixed(1)
GapAnalysis(mainCopyScore, competitorCopyScore) ==
    IF mainCopyScore.nan \/ competitorCopyScore.nan
    THEN [direction |-> "less", value |-> NaN]
    ELSE LET gap == mainCopyScore.v - competitorCopyScore.v
         IN  [direction |-> IF gap > 0 THEN "more" ELSE "less",
              value |-> Num(MathRound(Abs(gap), 10) * 10)]

(***************************************************************************)
(* shared/schema.ts analysisRequestSchema.                                 *)
(***************************************************************************)
MinKeywordCount == 1
MaxKeywordCount == 50
MinWeight == 1           \* 0.1, in tenths
MaxWeight == 100         \* 10, in tenths
MinTextLength == 1

StartsWithSk(apiKey) == Len(apiKey) >= 1 /\ apiKey[1] = "sk-"

\* keywordSchema as it would be without the bounds on the weight (a faulty
\* variant, for comparison)
keywordSchemaAnyWeight(keyword) == Len(keyword.text) >= 1

keywordSchema(keyword) ==
    /\ Len(keyword.text) >= 1
    /\ keyword.weight >= MinWeight /\ keyword.weight <= MaxWeight

analysisRequestSchema(body) ==
    /\ Len(body.apiKey) >= 1 /\ StartsWithSk(body.apiKey)
    /\ Len(body.keywords) >= MinKeywordCount
    /\ Len(body.keywords) <= MaxKeywordCount
    /\ \A k \in 1..Len(body.keywords) : keywordSchema(body.keywords[k])
    /\ CharLen(body.mainCopy) >= MinTextLength
    /\ CharLen(body.mainCopy) <= MaxTextLength
    /\ CharLen(body.competitorCopy) >= MinTextLength
    /\ CharLen(body.competitorCopy) <= MaxTextLength
    /\ body.analysisMode \in {"full", "chunked"}

(***************************************************************************)
(* Error classification: the catch block of POST /api/analyze and          *)
(* OpenAIClientService.handleOpenAIError.  An error object is the record   *)
(* [status, code, message]; of the message only what the classification    *)
(* looks for is kept, as a set: "permissions" is in it when the message    *)
(* includes 'insufficient permissions', "parse" when it includes 'parse'.  *)
(* status 0 stands for an error without a status.                          *)
(***************************************************************************)
\* CatchBlock as it would be if the rate limit were looked at before the
\* status 401 (a faulty variant, for comparison)
CatchBlockRateLimitFirst(error) ==
    IF error.code = "rate_limit_exceeded" \/ error.status = 429
    THEN [kind |-> "error", status |-> 429, message |-> "rate_limit"]
    ELSE IF error.status = 401
    THEN IF "permissions" \in error.message
         THEN [kind |-> "error", status |-> 401, message |-> "permissions"]
         ELSE [kind |-> "error", status |-> 401, message |-> "invalid_key"]
    ELSE IF "parse" \in error.message
    THEN [kind |-> "error", status |-> 400, message |-> "invalid_input"]
    ELSE [kind |-> "error", status |-> 500, message |-> "analysis_failed"]

CatchBlock(error) ==
    IF error.status = 401
    THEN IF "permissions" \in error.message
         THEN [kind |-> "error", status |-> 401, message |-> "permissions"]
         ELSE [kind |-> "error", status |-> 401, message |-> "invalid_key"]
    ELSE IF error.code = "rate_limit_exceeded" \/ error.status = 429
    THEN [kind |-> "error", status |-> 429, message |-> "rate_limit"]
    ELSE IF "parse" \in error.message
    THEN [kind |-> "error", status |-> 400, message |-> "invalid_input"]
    ELSE [kind |-> "error", status |-> 500, message |-> "analysis_failed"]

handleOpenAIError(error) ==
    IF error.status = 401
    THEN IF "permissions" \in error.message THEN "permissions" ELSE "invalid_key"
    ELSE IF error.code = "rate_limit_exceeded" \/ error.status = 429
    THEN "rate_limit"
    ELSE IF "parse" \in error.message THEN "invalid_input"
    ELSE "analysis_failed"

(***************************************************************************)
(* Keyword coverage: countMentions and the body of the for-loop of         *)
(* analyzeKeywordCoverage.                                                 *)
(***************************************************************************)
\* occurrences of the keyword in the text
countMentions(text, keyword) ==
    Cardinality({p \in 1..(Len(text) - Len(keyword) + 1) :
                   SubSeq(text, p, p + Len(keyword) - 1) = keyword})

\* x > y and x < y of JavaScript: false when either side is NaN
Greater(x, y) == ~x.nan /\ ~y.nan /\ x.v > y.v
Less(x, y) == ~x.nan /\ ~y.nan /\ x.v < y.v

\* Math.max(avgScore * factor / 10, floor / 10), in tenths of 1/Scale
Threshold(avgScore, factor, floor) ==
    IF avgScore.nan THEN NaN ELSE Num(Max(avgScore.v * factor, floor * Scale))

TimesTen(x) == IF x.nan THEN NaN ELSE Num(x.v * 10)

\* cs.map(c => c.title)
Titles(cs) == [k \in 1..Len(cs) |-> cs[k].title]

\* the embedding the provider answered for a text (the zero vector stands
\* for a response that is not there)
EmbeddingOf(known, text) ==
    IF \E r \in known : r.text = text
    THEN (CHOOSE r \in known : r.text = text).embedding
    ELSE <<0, 0>>

\* the fallback skipped: the sections below the threshold, as they are
\* (a faulty variant, for comparison)
WeakSectionsNoFallback(weakSections, lowCoverage, chunkScores) == weakSections

\* if (weakSections.length === 0 && (mainMentions === 0 || avgScore < 0.3))
\*     weakSections.push(...chunkScores.map(c => c.title))
WeakSectionsOrAll(weakSections, lowCoverage, chunkScores) ==
    IF Len(weakSections) = 0 /\ lowCoverage
    THEN weakSections \o Titles(chunkScores)
    ELSE weakSections

\* semanticCoverage: Math.round(avgScore * 100)
SemanticCoverage(avgScore) ==
    IF avgScore.nan THEN NaN ELSE Num(MathRound(avgScore.v * 100, Scale))

\* the body of the for-loop of analyzeKeywordCoverage once the mentions are
\* counted and the section similarities (cosines, in 1/Scale) are known
CoverageRecord(keyword, mainMentions, competitorMentions, chunkScores) ==
    LET avgScore == IF Len(chunkScores) > 0
                    THEN Mean([k \in 1..Len(chunkScores) |-> chunkScores[k].score])
                    ELSE Num(0)
        Strong(c) == Greater(TimesTen(c.score), Threshold(avgScore, 12, 3))
        Weak(c) == Less(TimesTen(c.score), Threshold(avgScore, 8, 2))
        strongSections == Titles(SelectSeq(chunkScores, Strong))
        weakSections == Titles(SelectSeq(chunkScores, Weak))
        lowCoverage == mainMentions = 0 \/ Less(TimesTen(avgScore), Num(3 * Scale))
    IN  [keyword |-> keyword.text,
         weight |-> keyword.weight,
         directMentions |-> mainMentions,
         semanticCoverage |-> SemanticCoverage(avgScore),
         strongSections |-> strongSections,
         weakSections |-> WeakSectionsOrAll(weakSections, lowCoverage, chunkScores),
         relatedTermsFound |-> <<>>,
         competitorAdvantage |-> 2 * competitorMentions > 3 * mainMentions,
         competitorMentions |-> competitorMentions]

(***************************************************************************)
(* analyzeSectionImprovements.  A suggested phrase is [template, keyword]: *)
(* the index of the template chosen and the keyword put into it.           *)
(* Math.random is a stream of draws: the n-th draw of the stream           *)
(* [first, step] picks the template (first + step * n) % TemplateCount.    *)
(***************************************************************************)
TemplateCount == 6

Draw(random, n) == (random.first + random.step * n) % TemplateCount

RandomStreams == [first : 0..(TemplateCount - 1), step : {0, 1}]

\* the streams tried inside a whole run of the handler
RunRandomStreams == [first : {0, TemplateCount - 1}, step : {1}]

\* kas.map(ka => ka.keyword)
KeywordsOf(kas) == [k \in 1..Len(kas) |-> kas[k].keyword]

\* s.slice(0, n)
Slice(s, n) == SubSeq(s, 1, Min(n, Len(s)))

\* ka.weakSections.includes(chunk.title) || ka.directMentions === 0 ||
\* ka.semanticCoverage < 50
IsMissing(ka, chunk) ==
    \/ \E k \in 1..Len(ka.weakSections) : ka.weakSections[k] = chunk.title
    \/ ka.directMentions = 0
    \/ Less(ka.semanticCoverage, Num(50))

MissingKeywords(chunk, keywordAnalysis) ==
    LET Missing(ka) == IsMissing(ka, chunk)
    IN  KeywordsOf(SelectSeq(keywordAnalysis, Missing))

\* no fallback to the first keywords (a faulty variant, for comparison)
FinalMissingKeywordsNoFallback(missingKeywords, keywordAnalysis) ==
    missingKeywords

\* missingKeywords.length > 0 ? missingKeywords
\*                            : keywordAnalysis.slice(0, 3).map(ka => ka.keyword)
FinalMissingKeywords(missingKeywords, keywordAnalysis) ==
    IF Len(missingKeywords) > 0 THEN missingKeywords
    ELSE KeywordsOf(Slice(keywordAnalysis, 3))

\* finalMissingKeywords.map(keyword => templates[Math.floor(Math.random() * 6)]),
\* after `drawn` earlier draws
SuggestedPhrases(finalMissingKeywords, random, drawn) ==
    [j \in 1..Len(finalMissingKeywords) |->
       [template |-> Draw(random, drawn + j),
        keyword |-> finalMissingKeywords[j]]]

CompetitorStrengths(chunk, competitorChunks, index) ==
    IF index <= Len(competitorChunks)
         /\ Greater(competitorChunks[index].score, chunk.score)
    THEN <<"Higher keyword density", "Better semantic alignment">>
    ELSE <<>>

analyzeSectionImprovements(mainCopyChunks, competitorCopyChunks, keywords, keywordAnalysis, random) ==
    LET final == [i \in 1..Len(mainCopyChunks) |->
                    FinalMissingKeywords(
                        MissingKeywords(mainCopyChunks[i], keywordAnalysis),
                        keywordAnalysis)]
        drawn == [i \in 1..Len(mainCopyChunks) |->
                    SumSeq([h \in 1..(i - 1) |-> Len(final[h])])]
    IN  [i \in 1..Len(mainCopyChunks) |->
           [section |-> mainCopyChunks[i].title,
            currentScore |-> RoundToTenth(mainCopyChunks[i].score),
            missingKeywords |-> final[i],
            suggestedPhrases |-> SuggestedPhrases(final[i], random, drawn[i]),
            competitorStrengths |->
                CompetitorStrengths(mainCopyChunks[i], competitorCopyChunks, i)]]

KeywordCoverage(keyword, mainText, competitorText, chunks, known) ==
    CoverageRecord(
        keyword,
        countMentions(mainText, keyword.text),
        countMentions(competitorText, keyword.text),
        [k \in 1..Len(chunks) |->
           [title |-> chunks[k].title,
            score |-> cosineSimilarity(
                          AsNumbers(EmbeddingOf(known, keyword.text)),
                          EmbeddingOf(known, chunks[k].text))]])

(***************************************************************************)
(* One run of POST /api/analyze: requests, provider answers, errors.       *)
(***************************************************************************)
Embeddings == {<<0, 0>>, <<1, 0>>, <<-1, 0>>, <<0, 1>>}

ErrorObjects ==
    [status : {401, 429, 500},
     code : {"rate_limit_exceeded", "other"},
     message : SUBSET {"permissions", "parse"}]

\* what analysisRequestSchema.parse throws: an error without status or code
SchemaErrors == [status : {0}, code : {"none"}, message : {{}, {"parse"}}]

KeywordText(k) == IF k = 1 THEN <<"a">> ELSE IF k = 2 THEN <<"b">>
                  ELSE <<"k" \o ToString(k)>>

UniformKeywords(n, weight) ==
    [k \in 1..n |-> [text |-> KeywordText(k), weight |-> weight]]

KeywordLists ==
    {UniformKeywords(n, w) : n \in 0..MaxKeywords, w \in {0, 1, 10, 100, 101}}
      \cup {[UniformKeywords(n, 10) EXCEPT ![1].weight = 30] : n \in 2..MaxKeywords}
      \cup {UniformKeywords(MaxKeywordCount + 1, 10)}
      \cup {<<[text |-> <<>>, weight |-> 10]>>}

\* one character more than a text may have
Oversized == <<Long, NL>>

Requests ==
    [apiKey : {<<>>, <<"pk-", "x">>, <<"sk-", "x">>},
     keywords : KeywordLists,
     mainCopy : {<<>>, <<"a">>, <<"a", NL, NL, "b">>, <<Long>>, Oversized},
     competitorCopy : {<<>>, <<"b">>, Oversized},
     analysisMode : {"full", "chunked"}]

(***************************************************************************)
(* Provider calls.  A call is [stage, text, status]; Promise.all over the  *)
(* calls in flight rejects with the first rejection and fulfils when all   *)
(* of them have.                                                           *)
(***************************************************************************)
Call(stage, text) == [stage |-> stage, text |-> text, status |-> "pending"]

\* Promise.allSettled in the place of Promise.all: rejections are ignored
\* (a faulty variant, for comparison)
PromiseAllSettled(cs) ==
    IF \E i \in 1..Len(cs) : cs[i].status = "pending" THEN "pending"
    ELSE "fulfilled"

PromiseAll(cs) ==
    IF \E i \in 1..Len(cs) : cs[i].status = "rejected" THEN "rejected"
    ELSE IF \E i \in 1..Len(cs) : cs[i].status = "pending" THEN "pending"
    ELSE "fulfilled"

KeywordCalls(keywords) ==
    [k \in 1..Len(keywords) |-> Call("keyword", keywords[k].text)]

ChunkCalls(chunks) == [k \in 1..Len(chunks) |-> Call("document", chunks[k].text)]

\* calculateKeywordSimilarity for every chunk: the keyword, then the chunk
CoverageCalls(keyword, chunks) ==
    [j \in 1..(2 * Len(chunks)) |->
       IF j % 2 = 1 THEN Call("coverage", keyword.text)
       ELSE Call("coverage", chunks[j \div 2].text)]

\* analyzeChunks as it would be if every section were scored with the
\* embedding of the batch's first section (a faulty variant, for comparison)
analyzeChunksFirstEmbedding(chunks, known, normalizedCentroid) ==
    [k \in 1..Len(chunks) |->
       [title |-> <<"Chunk", ToString(k)>>,
        score |-> RoundedChunkScore(
                      cosineSimilarity(normalizedCentroid,
                                       EmbeddingOf(known, chunks[1].text))),
        startIndex |-> chunks[k].startIndex,
        endIndex |-> chunks[k].endIndex,
        text |-> chunks[k].text]]

\* analyzeChunks
analyzeChunks(chunks, known, normalizedCentroid) ==
    [k \in 1..Len(chunks) |->
       [title |-> <<"Chunk", ToString(k)>>,
        score |-> RoundedChunkScore(
                      cosineSimilarity(normalizedCentroid,
                                       EmbeddingOf(known, chunks[k].text))),
        startIndex |-> chunks[k].startIndex,
        endIndex |-> chunks[k].endIndex,
        text |-> chunks[k].text]]

FullChunk(text, score) ==
    [title |-> <<"Full Document">>, score |-> score, startIndex |-> 0,
     endIndex |-> Len(SplitWords(text)) - 1, text |-> text]

AnalysisResult(body, sc, mainCopyChunks, competitorCopyChunks, keywordAnalysis, sectionImprovements) ==
    [kind |-> "result",
     mainCopyScore |-> RoundToTenth(sc.main),
     competitorCopyScore |-> RoundToTenth(sc.comp),
     gapAnalysis |-> GapAnalysis(sc.main, sc.comp),
     chunked |-> body.analysisMode = "chunked",
     mainCopyChunks |-> IF body.analysisMode = "chunked" THEN mainCopyChunks ELSE <<>>,
     competitorCopyChunks |->
         IF body.analysisMode = "chunked" THEN competitorCopyChunks ELSE <<>>,
     keywordWeights |-> body.keywords,
     keywordAnalysis |-> keywordAnalysis,
     sectionImprovements |-> sectionImprovements]

(***************************************************************************)
(* The handler of POST /api/analyze, one action per point where it can be  *)
(* resumed: the request arriving, and each answer of the provider.  What   *)
(* follows an await runs in the same step as the answer that resumes it.   *)
(***************************************************************************)
RunInit ==
    /\ req \in Requests
    /\ pc = "start" /\ calls = <<>> /\ embOf = {}
    /\ centroid = <<>> /\ mainChunks = <<>> /\ compChunks = <<>>
    /\ scores = NoScores /\ kwIdx = 0 /\ kwAnalysis = <<>>
    /\ lastError = NoError /\ response = NoResponse
    /\ SegIdle /\ CliIdle /\ RestIdle

\* the calls the handler is waiting for at its current await
Awaited(cs) ==
    IF pc = "keywords" THEN cs
    ELSE IF pc = "docs" THEN SelectSeq(cs, LAMBDA c : c.stage = "document")
    ELSE SubSeq(cs, Len(cs) - 2 * Len(mainChunks) + 1, Len(cs))

\* the catch block: the error is classified and sent; the locals are gone
Catch(cs, error) ==
    /\ calls' = cs
    /\ lastError' = error
    /\ response' = CatchBlock(error)
    /\ pc' = "done"
    /\ embOf' = {} /\ centroid' = <<>> /\ mainChunks' = <<>> /\ compChunks' = <<>>
    /\ scores' = NoScores /\ kwIdx' = 0 /\ kwAnalysis' = <<>>

\* the synthetic chunk of full mode, before it is scored
WholeText(text) ==
    [text |-> text, startIndex |-> 0, endIndex |-> Len(SplitWords(text)) - 1]

\* after the keyword embeddings: centroid, chunking, document requests
AfterKeywords(cs, known) ==
    LET keywordEmbeddings ==
            [k \in 1..Len(req.keywords) |->
               [keyword |-> req.keywords[k].text,
                weight |-> req.keywords[k].weight,
                embedding |-> EmbeddingOf(known, req.keywords[k].text)]]
        texts == <<req.mainCopy, req.competitorCopy>>
    IN  /\ centroid' = NormalizeCentroid(WeightedCentroid(keywordEmbeddings))
        /\ \E chunks \in {[d \in 1..2 |->
                              IF req.analysisMode = "chunked"
                              THEN chunkText(texts[d], ChunkSize, Overlap)
                              ELSE <<WholeText(texts[d])>>]} :
             /\ mainChunks' = chunks[1]
             /\ compChunks' = chunks[2]
             /\ calls' = cs \o ChunkCalls(chunks[1]) \o ChunkCalls(chunks[2])
        /\ pc' = "docs"
        /\ embOf' = known
        /\ UNCHANGED <<scores, kwIdx, kwAnalysis, lastError, response>>

ChunkScores(results) == [k \in 1..Len(results) |-> results[k].score]

\* after the document embeddings: scores, and the requests of the coverage
\* of the first keyword
AfterDocuments(cs, known) ==
    LET chunked == req.analysisMode = "chunked"
        FullScore(text) ==
            TimesHundred(cosineSimilarity(centroid, EmbeddingOf(known, text)))
        mainResults ==
            IF chunked THEN analyzeChunks(mainChunks, known, centroid)
            ELSE <<FullChunk(req.mainCopy, FullScore(req.mainCopy))>>
        competitorResults ==
            IF chunked THEN analyzeChunks(compChunks, known, centroid)
            ELSE <<FullChunk(req.competitorCopy, FullScore(req.competitorCopy))>>
    IN  /\ mainChunks' = mainResults
        /\ compChunks' = competitorResults
        /\ scores' = [main |-> IF chunked THEN Mean(ChunkScores(mainResults))
                               ELSE mainResults[1].score,
                      comp |-> IF chunked THEN Mean(ChunkScores(competitorResults))
                               ELSE competitorResults[1].score]
        /\ kwIdx' = 1
        /\ calls' = cs \o CoverageCalls(req.keywords[1], mainResults)
        /\ pc' = "coverage"
        /\ embOf' = known
        /\ UNCHANGED <<centroid, kwAnalysis, lastError, response>>

\* after the similarities of one keyword: its coverage; then the next
\* keyword, or the result
AfterCoverage(cs, known) ==
    LET results == Append(kwAnalysis,
                          KeywordCoverage(req.keywords[kwIdx], req.mainCopy,
                                          req.competitorCopy, mainChunks, known))
    IN  /\ kwAnalysis' = results
        /\ embOf' = known
        /\ IF kwIdx < Len(req.keywords)
           THEN /\ kwIdx' = kwIdx + 1
                /\ calls' = cs \o CoverageCalls(req.keywords[kwIdx + 1], mainChunks)
                /\ UNCHANGED <<pc, response>>
           ELSE /\ calls' = cs
                /\ pc' = "done"
                /\ \E random \in RunRandomStreams :
                     response' = AnalysisResult(
                                     req, scores, mainChunks, compChunks, results,
                                     analyzeSectionImprovements(
                                         mainChunks, compChunks, req.keywords,
                                         results, random))
                /\ UNCHANGED kwIdx
        /\ UNCHANGED <<centroid, mainChunks, compChunks, scores, lastError>>

\* the handler after one of its calls has settled
Resume(cs, known, error) ==
    LET outcome == PromiseAll(Awaited(cs))
    IN  IF outcome = "rejected" THEN Catch(cs, error)
        ELSE IF outcome = "pending"
        THEN /\ calls' = cs
             /\ embOf' = known
             /\ UNCHANGED <<pc, centroid, mainChunks, compChunks, scores, kwIdx,
                            kwAnalysis, lastError, response>>
        ELSE IF pc = "keywords" THEN AfterKeywords(cs, known)
        ELSE IF pc = "docs" THEN AfterDocuments(cs, known)
        ELSE AfterCoverage(cs, known)

Waiting == pc \in {"keywords", "docs", "coverage"}

\* analysisRequestSchema.parse(req.body) throws
RejectInvalid ==
    /\ pc = "start"
    /\ ~analysisRequestSchema(req)
    /\ \E error \in SchemaErrors : Catch(calls, error)
    /\ UNCHANGED <<req, segVars, cliVars, restVars>>

\* the request is valid: the keyword embeddings are requested
StartRun ==
    /\ pc = "start"
    /\ analysisRequestSchema(req)
    /\ calls' = KeywordCalls(req.keywords)
    /\ pc' = "keywords"
    /\ UNCHANGED <<req, embOf, centroid, mainChunks, compChunks, scores, kwIdx,
                   kwAnalysis, lastError, response, segVars, cliVars, restVars>>

\* the provider answers call i; equal texts get equal embeddings
EmbeddingFulfilled(i) ==
    /\ Waiting
    /\ calls[i].status = "pending"
    /\ \E e \in Embeddings :
         /\ (\E r \in embOf : r.text = calls[i].text)
              => e = EmbeddingOf(embOf, calls[i].text)
         /\ Resume([calls EXCEPT ![i].status = "fulfilled"],
                   embOf \cup {[text |-> calls[i].text, embedding |-> e]},
                   lastError)
    /\ UNCHANGED <<req, segVars, cliVars, restVars>>

\* the provider fails call i
EmbeddingRejected(i) ==
    /\ Waiting
    /\ calls[i].status = "pending"
    /\ \E error \in ErrorObjects :
         Resume([calls EXCEPT ![i].status = "rejected"], embOf, error)
    /\ UNCHANGED <<req, segVars, cliVars, restVars>>

RunNext ==
    \/ RejectInvalid
    \/ StartRun
    \/ \E i \in 1..Len(calls) : EmbeddingFulfilled(i)
    \/ \E i \in 1..Len(calls) : EmbeddingRejected(i)

RunSpec == RunInit /\ [][RunNext]_vars

(***************************************************************************)
(* Claims about one run of POST /api/analyze.                              *)
(***************************************************************************)
Rejected(i) == calls[i].status = "rejected"
Fulfilled(i) == calls[i].status = "fulfilled"
KeywordCallsIssued == {i \in 1..Len(calls) : calls[i].stage = "keyword"}

\* C1: the weighted centroid is computed only after every keyword-embedding
\* request has completed successfully, and if any embedding request of the
\* run fails, in any interleaving of completions and failures, the run ends
\* with an error and without an AnalysisResult: no result is built from the
\* requests that succeeded.
C1_AllOrNothing ==
    /\ centroid # <<>> =>
         /\ Cardinality(KeywordCallsIssued) = Len(req.keywords)
         /\ \A i \in KeywordCallsIssued : Fulfilled(i)
    /\ (\E i \in 1..Len(calls) : Rejected(i)) =>
         /\ pc = "done"
         /\ response.kind = "error"
         /\ DOMAIN response = {"kind", "status", "message"}
    /\ response.kind = "result" => \A i \in 1..Len(calls) : Fulfilled(i)

\* a run that failed while some of its requests had succeeded and others
\* were still in flight
C1_Witness ==
    /\ pc = "done"
    /\ response.kind = "error"
    /\ \E i, j, k \in 1..Len(calls) :
         /\ Rejected(i) /\ Fulfilled(j) /\ calls[k].status = "pending"
         /\ calls[i].stage = calls[j].stage

\* what C3 calls an invalid request
InvalidInput(body) ==
    \/ Len(body.keywords) = 0
    \/ Len(body.keywords) > 50
    \/ \E k \in 1..Len(body.keywords) :
         body.keywords[k].weight < 1 \/ body.keywords[k].weight > 100
    \/ CharLen(body.mainCopy) = 0 \/ CharLen(body.mainCopy) > 50000
    \/ CharLen(body.competitorCopy) = 0 \/ CharLen(body.competitorCopy) > 50000

ResultScores ==
    {response.mainCopyScore, response.competitorCopyScore}
      \cup {response.mainCopyChunks[k].score : k \in 1..Len(response.mainCopyChunks)}
      \cup {response.competitorCopyChunks[k].score :
              k \in 1..Len(response.competitorCopyChunks)}

\* C4: when a zero-magnitude vector is met in the normalization of the
\* centroid or in a cosine similarity, the run fails with an error; it never
\* returns an AnalysisResult with a NaN score.
C4_ZeroMagnitudeFails ==
    response.kind = "result" => \A s \in ResultScores : ~s.nan

\* the classification C5 gives to an error
Classification(error) ==
    IF error.status = 401
    THEN IF "permissions" \in error.message THEN "permissions" ELSE "invalid_key"
    ELSE IF error.code = "rate_limit_exceeded" \/ error.status = 429
    THEN "rate_limit"
    ELSE IF "parse" \in error.message THEN "invalid_input"
    ELSE "analysis_failed"

StatusOf(classification) ==
    CASE classification \in {"permissions", "invalid_key"} -> 401
      [] classification = "rate_limit" -> 429
      [] classification = "invalid_input" -> 400
      [] OTHER -> 500

\* C5: every failed run is reported with exactly one classification, by the
\* precedence: status 401 is an authentication error (with the permissions
\* hint when the message mentions insufficient permissions); otherwise the
\* rate-limit code or status 429 is a rate-limited error; otherwise a message
\* containing 'parse' is an invalid-input error; otherwise a generic
\* analysis-failed error.
C5_ClassificationPrecedence ==
    (pc = "done" /\ response.kind # "result") =>
        /\ response.kind = "error"
        /\ response.message = Classification(lastError)
        /\ response.status = StatusOf(response.message)
        /\ handleOpenAIError(lastError) = Classification(lastError)
        /\ lastError.status = 401 => response.status = 401
        /\ (lastError.status = 429) => response.message = "rate_limit"

\* a rejected credential that also carries the rate-limit code and the word
\* 'parse' has been reported as an authentication error
C5_Witness ==
    /\ pc = "done"
    /\ lastError.status = 401
    /\ lastError.code = "rate_limit_exceeded"
    /\ "parse" \in lastError.message
    /\ response = [kind |-> "error", status |-> 401, message |-> "invalid_key"]

\* C6: every section score and both aggregate scores of an AnalysisResult
\* lie in [0, 100], whatever the cosine similarity in [-1, 1].
C6_ScoresInRange ==
    response.kind = "result" =>
        \A s \in ResultScores : ~s.nan => (s.v >= 0 /\ s.v <= 100 * 100)

(***************************************************************************)
(* The browser-side client: the singleton openAIClient of                  *)
(* OpenAIClientService and the callers that run handleSubmit on it.  A     *)
(* caller initializes the singleton with the key of its request, awaits    *)
(* analyze, and destroys the singleton in its finally block.  JavaScript   *)
(* runs each caller without interruption from one await to the next.       *)
(***************************************************************************)
Callers == 1..MaxCallers

NoOutcome == [kind |-> "none", message |-> "none", origin |-> "none"]

\* how a run ended: with a result, or with an error that came from the
\* provider or was thrown by the client itself
Outcome(kind, message, origin) ==
    [kind |-> kind, message |-> message, origin |-> origin]

ClientCall(r, stage, credential) ==
    [run |-> r, stage |-> stage, credential |-> credential]

ClientInit ==
    /\ openai = Null
    /\ cpc \in [Callers -> [at : {"idle"},
                            apiKey : {<<"pk-", "x">>, <<"sk-", "1">>, <<"sk-", "2">>},
                            analysisMode : {"full", "chunked"}]]
    /\ ccalls = {}
    /\ coutcome = [r \in Callers |-> NoOutcome]
    /\ SegIdle /\ RunIdle /\ RestIdle

\* OpenAIClientService.destroy: this.openai = null
destroy(current) == Null

\* the catch and finally blocks of handleSubmit
Finally(r, outcome) ==
    /\ coutcome' = [coutcome EXCEPT ![r] = outcome]
    /\ cpc' = [cpc EXCEPT ![r].at = "done"]
    /\ openai' = destroy(openai)

\* handleSubmit up to its await: initialize, then analyze up to the await of
\* generateKeywordEmbeddings, whose requests carry this.openai
Submit(r) ==
    /\ cpc[r].at = "idle"
    /\ IF ~StartsWithSk(cpc[r].apiKey)
       THEN /\ Finally(r, Outcome("error", "invalid_key_format", "client"))
            /\ UNCHANGED ccalls
       ELSE /\ openai' = cpc[r].apiKey
            /\ ccalls' = ccalls \cup {ClientCall(r, "keyword", cpc[r].apiKey)}
            /\ cpc' = [cpc EXCEPT ![r].at = "keywords"]
            /\ UNCHANGED coutcome
    /\ UNCHANGED <<segVars, runVars, restVars>>

\* the keyword embeddings arrive: performFullAnalysis or analyzeChunks throws
\* when this.openai is null, and else sends its requests with this.openai
KeywordsAnswered(r) ==
    /\ cpc[r].at = "keywords"
    /\ IF openai = Null
       THEN /\ Finally(r, Outcome("error",
                                  handleOpenAIError([status |-> 0, code |-> "none",
                                                     message |-> {}]),
                                  "client"))
            /\ UNCHANGED ccalls
       ELSE /\ ccalls' = ccalls \cup {ClientCall(r, "document", openai)}
            /\ cpc' = [cpc EXCEPT ![r].at = "documents"]
            /\ UNCHANGED <<openai, coutcome>>
    /\ UNCHANGED <<segVars, runVars, restVars>>

\* the document embeddings arrive: the coverage needs no request, and the
\* result is returned
DocumentsAnswered(r) ==
    /\ cpc[r].at = "documents"
    /\ Finally(r, Outcome("result", "none", "none"))
    /\ UNCHANGED <<ccalls, segVars, runVars, restVars>>

\* the provider fails a request of the run
ProviderFails(r) ==
    /\ cpc[r].at \in {"keywords", "documents"}
    /\ \E error \in ErrorObjects :
         Finally(r, Outcome("error", handleOpenAIError(error), "provider"))
    /\ UNCHANGED <<ccalls, segVars, runVars, restVars>>

ClientNext ==
    \E r \in Callers :
        \/ Submit(r)
        \/ KeywordsAnswered(r)
        \/ DocumentsAnswered(r)
        \/ ProviderFails(r)

ClientSpec == ClientInit /\ [][ClientNext]_vars

(***************************************************************************)
(* Claims about concurrent runs.                                           *)
(***************************************************************************)
\* C2: runs share no mutable state: in every interleaving of two or more
\* runs, the credential of each provider call of a run is the one of the
\* run's own request, and a run fails only on its own request or on the
\* provider's answer to one of its own calls.
C2_RunsShareNothing ==
    /\ \A c \in ccalls : c.credential = cpc[c.run].apiKey
    /\ \A r \in Callers :
         (coutcome[r].kind = "error" /\ StartsWithSk(cpc[r].apiKey))
            => coutcome[r].origin = "provider"

(***************************************************************************)
(* analyzeKeywordCoverage applied to one keyword: the mention counts and   *)
(* the section similarities are the inputs.                                *)
(***************************************************************************)
MaxSections == 3     \* sections of the user's document in a coverage input

\* cosines of a keyword and a section, in 1/Scale: -1, 0, 0.2, 0.25, 0.3,
\* 0.32, 1
SectionScores ==
    {Num(0 - Scale), Num(0), Num(Scale \div 5), Num(Scale \div 4),
     Num((3 * Scale) \div 10), Num((32 * Scale) \div 100), Num(Scale), NaN}

SectionTitle(k) == <<"Chunk", ToString(k)>>

ChunkScoreLists ==
    UNION {{[k \in 1..n |-> [title |-> SectionTitle(k), score |-> f[k]]] :
              f \in [1..n -> SectionScores]} : n \in 0..MaxSections}

CoverageInputs ==
    [keyword : {[text |-> <<"a">>, weight |-> 10]},
     mainMentions : {0, 2},
     competitorMentions : {0, 4},
     chunkScores : ChunkScoreLists]

CovInit ==
    /\ fnIn \in CoverageInputs /\ fnOut = NotReturned
    /\ SegIdle /\ RunIdle /\ CliIdle /\ EnhIdle /\ LimIdle /\ KiIdle /\ LoopIdle /\ SvcIdle /\ DiffIdle

AnalyzeKeywordCoverage ==
    /\ fnOut = NotReturned
    /\ fnOut' = Returned(CoverageRecord(fnIn.keyword, fnIn.mainMentions,
                                         fnIn.competitorMentions,
                                         fnIn.chunkScores))
    /\ UNCHANGED <<fnIn, segVars, runVars, cliVars, enhVars, limVars, kiVars, loopVars, svcVars, diffVars>>

CovNext == AnalyzeKeywordCoverage

CovSpec == CovInit /\ [][CovNext]_vars

\* the average similarity of the sections of a coverage input
AverageOf(chunkScores) ==
    IF Len(chunkScores) = 0 THEN Num(0)
    ELSE Mean([k \in 1..Len(chunkScores) |-> chunkScores[k].score])

\* no section scores below the weak threshold max(average * 0.8, 0.2)
NoSectionBelowWeakThreshold(chunkScores) ==
    \A k \in 1..Len(chunkScores) :
        ~Less(TimesTen(chunkScores[k].score),
              Threshold(AverageOf(chunkScores), 8, 2))

\* zero direct mentions, or an average similarity below 0.3
PoorlyCovered(in) ==
    in.mainMentions = 0
      \/ Less(TimesTen(AverageOf(in.chunkScores)), Num(3 * Scale))

\* C11: for a non-empty list of sections, when no section scores below the
\* weak threshold and the keyword is poorly covered, weakSections is
\* non-empty and is the list of all section titles in section order.
C11_WeakFallbackAllSections ==
    (fnOut.kind = "returned" /\ Len(fnIn.chunkScores) > 0
       /\ NoSectionBelowWeakThreshold(fnIn.chunkScores) /\ PoorlyCovered(fnIn))
      => /\ fnOut.value.weakSections # <<>>
         /\ fnOut.value.weakSections =
              [k \in 1..Len(fnIn.chunkScores) |-> fnIn.chunkScores[k].title]

\* the fallback taken for a keyword that is mentioned: two sections at 0.25
C11_Witness ==
    /\ fnOut.kind = "returned"
    /\ fnIn.mainMentions > 0
    /\ Len(fnIn.chunkScores) = 2
    /\ NoSectionBelowWeakThreshold(fnIn.chunkScores) /\ PoorlyCovered(fnIn)
    /\ fnOut.value.weakSections = <<SectionTitle(1), SectionTitle(2)>>

(***************************************************************************)
(* analyzeSectionImprovements applied to one list of sections and one list *)
(* of coverage records.                                                    *)
(***************************************************************************)
MaxRecords == 4      \* coverage records of an improvements input

\* a coverage record of each kind the filter tells apart: weak in the first
\* section only, never mentioned, covered below 50, covered at 50 or above
CoverageKinds == {"weak", "unmentioned", "low", "fine"}

CoverageOfKind(kind, k) ==
    [keyword |-> KeywordText(k),
     weight |-> 10,
     directMentions |-> IF kind = "unmentioned" THEN 0 ELSE 2,
     semanticCoverage |-> IF kind = "low" THEN Num(49)
                          ELSE IF kind = "fine" THEN Num(50) ELSE Num(75),
     strongSections |-> <<>>,
     weakSections |-> IF kind = "weak" THEN <<SectionTitle(1)>> ELSE <<>>,
     relatedTermsFound |-> <<>>,
     competitorAdvantage |-> FALSE,
     competitorMentions |-> 0]

CoverageLists ==
    UNION {{[k \in 1..n |-> CoverageOfKind(f[k], k)] :
              f \in [1..n -> CoverageKinds]} : n \in 0..MaxRecords}

ScoredSection(k, score) ==
    [title |-> SectionTitle(k), score |-> Num(score), text |-> <<"w">>]

ImprovementInputs ==
    [mainChunks : {<<ScoredSection(1, 5000)>>,
                   <<ScoredSection(1, 5000), ScoredSection(2, 7010)>>},
     competitorChunks : {<<>>, <<ScoredSection(1, 6000)>>},
     keywordAnalysis : CoverageLists]

ImpInit ==
    /\ fnIn \in ImprovementInputs /\ fnOut = NotReturned
    /\ SegIdle /\ RunIdle /\ CliIdle /\ EnhIdle /\ LimIdle /\ KiIdle /\ LoopIdle /\ SvcIdle /\ DiffIdle

AnalyzeSectionImprovements ==
    /\ fnOut = NotReturned
    /\ \E random \in RandomStreams :
         fnOut' = Returned(analyzeSectionImprovements(
                               fnIn.mainChunks, fnIn.competitorChunks,
                               <<>>, fnIn.keywordAnalysis, random))
    /\ UNCHANGED <<fnIn, segVars, runVars, cliVars, enhVars, limVars, kiVars, loopVars, svcVars, diffVars>>

ImpNext == AnalyzeSectionImprovements

ImpSpec == ImpInit /\ [][ImpNext]_vars

\* C12: the missingKeywords list of every section's SectionImprovement has
\* at most 3 entries, for any number of coverage records.
C12_AtMostThreeMissing ==
    fnOut.kind = "returned"
      => \A i \in 1..Len(fnOut.value) : Len(fnOut.value[i].missingKeywords) <= 3

\* a coverage record qualifies for a section
Qualifies(ka, title) ==
    \/ \E k \in 1..Len(ka.weakSections) : ka.weakSections[k] = title
    \/ ka.directMentions = 0
    \/ ~ka.semanticCoverage.nan /\ ka.semanticCoverage.v < 50

MaxAnalysed == 6     \* coverage records given to calculateScorePredictions
TopPredictions == 5

\* a semanticCoverage that arrived through JSON: NaN is sent as null, and
\* null counts as 0 in comparisons and arithmetic
Percent(x) == IF x.nan THEN 0 ELSE x.v

\* ka.directMentions === 0 || ka.semanticCoverage < 60
NeedsImprovement(ka) == ka.directMentions = 0 \/ Percent(ka.semanticCoverage) < 60

\* competitorAnalysis?.find(c => c.keyword === ka.keyword), then
\* Math.max(3, Math.ceil(competitorData.directMentions * 0.8)), or 3
TargetMentions(ka, competitorAnalysis) ==
    LET found == {k \in 1..Len(competitorAnalysis) :
                     competitorAnalysis[k].keyword = ka.keyword}
    IN  IF found = {} THEN 3
        ELSE LET competitorData ==
                     competitorAnalysis[CHOOSE k \in found : \A h \in found : k <= h]
             IN  Max(3, (4 * competitorData.directMentions + 4) \div 5)

\* Math.round((100 - ka.semanticCoverage) / 100 * 10 * ka.weight * 10) / 10
Impact(ka) == MathRound((100 - Percent(ka.semanticCoverage)) * ka.weight, 10) * 10

Prediction(ka, currentScore, competitorAnalysis) ==
    [keyword |-> ka.keyword,
     currentMentions |-> ka.directMentions,
     suggestedMentions |-> TargetMentions(ka, competitorAnalysis),
     currentScore |-> currentScore,
     predictedScore |-> Min(100 * 100, currentScore + Impact(ka)),
     impact |-> Impact(ka)]

\* predictions.sort((a, b) => b.impact - a.impact): stable, descending;
\* an entry goes behind those of larger impact and the earlier ones of equal impact
SortedByImpact(ps) ==
    LET Before(h, k) ==
            \/ ps[h].impact > ps[k].impact
            \/ ps[h].impact = ps[k].impact /\ h < k
        Rank(k) == 1 + Cardinality({h \in 1..Len(ps) : Before(h, k)})
    IN  [i \in 1..Len(ps) |-> ps[CHOOSE k \in 1..Len(ps) : Rank(k) = i]]

SortByImpact(predictions) ==
    CHOOSE sorted \in {SortedByImpact(ps) : ps \in {predictions}} : TRUE

AllPredictions(currentScore, keywordAnalysis, competitorAnalysis) ==
    LET needy == SelectSeq(keywordAnalysis, NeedsImprovement)
    IN  [k \in 1..Len(needy) |->
           Prediction(needy[k], currentScore, competitorAnalysis)]

\* the first five predictions in input order, then sorted
\* (a faulty variant, for comparison)
calculateScorePredictionsSliceFirst(currentScore, keywordAnalysis, competitorAnalysis) ==
    SortByImpact(Slice(AllPredictions(currentScore, keywordAnalysis,
                                      competitorAnalysis), TopPredictions))

calculateScorePredictions(currentScore, keywordAnalysis, competitorAnalysis) ==
    Slice(SortByImpact(AllPredictions(currentScore, keywordAnalysis,
                                      competitorAnalysis)), TopPredictions)

\* coverage records as calculateScorePredictions tells them apart
AnalysedKinds == {"unmentioned", "low", "fine"}

AnalysedOfKind(kind, k) ==
    [keyword |-> KeywordText(k),
     weight |-> IF kind = "low" THEN 20 ELSE IF kind = "fine" THEN MaxWeight ELSE 10,
     directMentions |-> IF kind = "unmentioned" THEN 0 ELSE 2,
     semanticCoverage |-> IF kind = "unmentioned" THEN Num(75)
                          ELSE IF kind = "low" THEN Num(40) ELSE Num(60),
     strongSections |-> <<>>,
     weakSections |-> <<>>,
     relatedTermsFound |-> <<>>,
     competitorAdvantage |-> FALSE,
     competitorMentions |-> 0]

AnalysedLists ==
    UNION {{[k \in 1..n |-> AnalysedOfKind(f[k], k)] :
              f \in [1..n -> AnalysedKinds]} : n \in 0..MaxAnalysed}

PredictionInputs ==
    [currentScore : {95 * 100},
     keywordAnalysis : AnalysedLists,
     competitorAnalysis :
         {<<>>, <<[AnalysedOfKind("fine", 1) EXCEPT !.directMentions = 10]>>}]

PredInit ==
    /\ fnIn \in PredictionInputs /\ fnOut = NotReturned
    /\ SegIdle /\ RunIdle /\ CliIdle /\ EnhIdle /\ LimIdle /\ KiIdle /\ LoopIdle /\ SvcIdle /\ DiffIdle

CalculateScorePredictions ==
    /\ fnOut = NotReturned
    /\ fnOut' = Returned(calculateScorePredictions(
                             fnIn.currentScore, fnIn.keywordAnalysis,
                             fnIn.competitorAnalysis))
    /\ UNCHANGED <<fnIn, segVars, runVars, cliVars, enhVars, limVars, kiVars, loopVars, svcVars, diffVars>>

PredNext == CalculateScorePredictions

PredSpec == PredInit /\ [][PredNext]_vars

\* the positions of the input whose keyword got a prediction
Predicted(in, out) ==
    {k \in 1..Len(in) : \E i \in 1..Len(out) : out[i].keyword = in[k].keyword}

\* the positions of the input with no mention or a coverage below 60
Qualifying(in) ==
    {k \in 1..Len(in) :
       in[k].directMentions = 0 \/ in[k].semanticCoverage.v < 60}

\* (100 - coverage) / 100 * 10 * weight, to one decimal, in hundredths
ExpectedImpact(ka) ==
    10 * (((100 - ka.semanticCoverage.v) * ka.weight + 5) \div 10)

\* C14: calculateScorePredictions returns at most 5 predictions, sorted by
\* impact in descending order, each for a keyword with zero direct mentions
\* or a semantic coverage below 60, and no qualifying keyword that was left
\* out has a larger impact than one that was returned.
C14_TopFiveByImpact ==
    fnOut.kind = "returned" =>
      LET in == fnIn.keywordAnalysis
          out == fnOut.value
      IN  /\ Len(out) <= 5
          /\ \A i, j \in 1..Len(out) : i < j => out[i].impact >= out[j].impact
          /\ \A i \in 1..Len(out) :
               \E k \in Qualifying(in) :
                  /\ in[k].keyword = out[i].keyword
                  /\ out[i].impact = ExpectedImpact(in[k])
          /\ \A k \in Qualifying(in) \ Predicted(in, out) :
               \A i \in 1..Len(out) : ExpectedImpact(in[k]) <= out[i].impact

\* six qualifying keywords, the one with the largest impact last: it is
\* returned first and a smaller one is left out
C14_Witness ==
    /\ fnOut.kind = "returned"
    /\ Cardinality(Qualifying(fnIn.keywordAnalysis)) = 6
    /\ Len(fnOut.value) = 5
    /\ fnOut.value[1].keyword = KeywordText(6)
    /\ fnOut.value[1].impact > fnOut.value[5].impact

(***************************************************************************)
(* calculateCumulativeImpact.  The factor 0.8 is kept exact: with n        *)
(* predictions the sum is computed in units of 1 / 5^(n-1).                *)
(***************************************************************************)
MaxPredictions == 3  \* predictions of a cumulative-impact input

RECURSIVE Pow(_, _)
Pow(b, n) == IF n = 0 THEN 1 ELSE b * Pow(b, n - 1)

\* cumulativeScore after the loop, times 5^(n-1)
CumulativeScore(predictions) ==
    LET n == Len(predictions)
    IN  predictions[1].currentScore * Pow(5, n - 1)
          + SumSeq([i \in 1..n |->
                      predictions[i].impact * Pow(4, i - 1) * Pow(5, n - i)])

\* Math.round(cumulativeScore * 10) / 10 without Math.min(100, ...)
\* (a faulty variant, for comparison)
calculateCumulativeImpactUncapped(predictions) ==
    IF Len(predictions) = 0 THEN 0
    ELSE MathRound(CumulativeScore(predictions),
                   10 * Pow(5, Len(predictions) - 1)) * 10

calculateCumulativeImpact(predictions) ==
    IF Len(predictions) = 0 THEN 0
    ELSE Min(100 * 100,
             MathRound(CumulativeScore(predictions),
                       10 * Pow(5, Len(predictions) - 1)) * 10)

\* mainCopyScore values: -50, 0, 95, in hundredths
CurrentScores == {0 - 50 * 100, 0, 95 * 100}

\* impacts: 0, 0.1, 2.5, 10, in hundredths
Impacts == {0, 10, 250, 1000}

PredictionOf(k, currentScore, impact) ==
    [keyword |-> KeywordText(k),
     currentMentions |-> 0,
     suggestedMentions |-> 3,
     currentScore |-> currentScore,
     predictedScore |-> Min(100 * 100, currentScore + impact),
     impact |-> impact]

\* the predictions of one analysis (they share its score), and one more
CumulativeInputs ==
    UNION {{[predictions |-> [k \in 1..n |-> PredictionOf(k, s, f[k])],
             appended |-> PredictionOf(n + 1, s, i)] :
              f \in [1..n -> Impacts], s \in CurrentScores, i \in Impacts} :
           n \in 0..MaxPredictions}

CumInit ==
    /\ fnIn \in CumulativeInputs /\ fnOut = NotReturned
    /\ SegIdle /\ RunIdle /\ CliIdle /\ EnhIdle /\ LimIdle /\ KiIdle /\ LoopIdle /\ SvcIdle /\ DiffIdle

\* the function applied to the list, and to the list with one more entry
CalculateCumulativeImpact ==
    /\ fnOut = NotReturned
    /\ fnOut' = Returned(
           [value |-> calculateCumulativeImpact(fnIn.predictions),
            extended |-> calculateCumulativeImpact(
                             Append(fnIn.predictions, fnIn.appended))])
    /\ UNCHANGED <<fnIn, segVars, runVars, cliVars, enhVars, limVars, kiVars, loopVars, svcVars, diffVars>>

CumNext == CalculateCumulativeImpact

CumSpec == CumInit /\ [][CumNext]_vars

UnroundedScores ==
    {Num(0 - 100 * 100), Num(0), Num(4995), Num(4996), Num(5000), Num(5004),
     Num(5005), Num(5010), Num(100 * 100), NaN}

ScorePairs == [main : UnroundedScores, comp : UnroundedScores]

ReportInit ==
    /\ fnIn \in ScorePairs /\ fnOut = NotReturned
    /\ SegIdle /\ RunIdle /\ CliIdle /\ EnhIdle /\ LimIdle /\ KiIdle /\ LoopIdle /\ SvcIdle /\ DiffIdle

\* const gap = ...; const gapAnalysis = ...; const result = {...}
BuildResult ==
    /\ fnOut = NotReturned
    /\ fnOut' = Returned(AnalysisResult(
                             [analysisMode |-> "full", keywords |-> <<>>],
                             fnIn, <<>>, <<>>, <<>>, <<>>))
    /\ UNCHANGED <<fnIn, segVars, runVars, cliVars, enhVars, limVars, kiVars, loopVars, svcVars, diffVars>>

ReportNext == BuildResult

ReportSpec == ReportInit /\ [][ReportNext]_vars

\* C16: when the reported main and competitor scores are equal, the gap
\* text is the "less aligned" sentence with a gap of 0.0%; the "more
\* aligned" sentence appears only when the reported main score is strictly
\* greater than the reported competitor score.
C16_EqualScoresLessAligned ==
    (fnOut.kind = "returned"
       /\ ~fnOut.value.mainCopyScore.nan /\ ~fnOut.value.competitorCopyScore.nan)
      => LET result == fnOut.value
         IN  /\ result.mainCopyScore.v = result.competitorCopyScore.v
                  => /\ result.gapAnalysis.direction = "less"
                     /\ result.gapAnalysis.value = Num(0)
             /\ result.gapAnalysis.direction = "more"
                  => result.mainCopyScore.v > result.competitorCopyScore.v

(***************************************************************************)
(* Claims on the aggregate scores and on the coverage values of a run.     *)
(***************************************************************************)
\* the requests of the document stage, in issue order
DocumentCalls ==
    LET IsDocument(c) == c.stage = "document"
    IN  SelectSeq(calls, IsDocument)

\* the mean of the section scores to one decimal, in hundredths of a percent
MeanToOneDecimal(sections) ==
    IF \E k \in 1..Len(sections) : sections[k].score.nan THEN NaN
    ELSE Num(10 * MathRound(SumSeq([k \in 1..Len(sections) |-> sections[k].score.v]),
                            10 * Len(sections)))

\* C17: in chunked mode each document's aggregate score is the unweighted
\* arithmetic mean of that document's section scores, rounded to one
\* decimal, and the document stage requests one embedding per section and
\* none for a whole document that has several sections.
C17_ChunkedScoreIsMean ==
    (response.kind = "result" /\ response.chunked) =>
      LET main == response.mainCopyChunks
          comp == response.competitorCopyChunks
          sections == main \o comp
      IN  /\ Len(main) > 0 => response.mainCopyScore = MeanToOneDecimal(main)
          /\ Len(comp) > 0 => response.competitorCopyScore = MeanToOneDecimal(comp)
          /\ Len(DocumentCalls) = Len(sections)
          /\ \A k \in 1..Len(sections) : DocumentCalls[k].text = sections[k].text
          /\ Len(main) > 1 =>
               \A k \in 1..Len(DocumentCalls) : DocumentCalls[k].text # req.mainCopy

\* a chunked run over a document of two sections that score differently
C17_Witness ==
    /\ response.kind = "result" /\ response.chunked
    /\ Len(response.mainCopyChunks) = 2
    /\ ~response.mainCopyChunks[1].score.nan
    /\ ~response.mainCopyChunks[2].score.nan
    /\ response.mainCopyChunks[1].score.v = 100 * 100
    /\ response.mainCopyChunks[2].score.v = 0
    /\ response.mainCopyScore = Num(50 * 100)

\* C18: in every KeywordCoverage record the semantic coverage is a
\* percentage within 0 to 100, whatever the section similarities in
\* [-1, 1] are, and the direct mention count is an integer >= 0.
C18_CoverageIsPercentage ==
    \A k \in 1..Len(kwAnalysis) :
        /\ kwAnalysis[k].directMentions >= 0
        /\ ~kwAnalysis[k].semanticCoverage.nan
             => /\ kwAnalysis[k].semanticCoverage.v >= 0
                /\ kwAnalysis[k].semanticCoverage.v <= 100

(***************************************************************************)
(* The enhancement step: POST /api/enhance on the server and               *)
(* OpenAIClientService.enhance in the browser.  The content of a           *)
(* completion is [present, text]: null is [FALSE, <<>>], "" is [TRUE, <<>>].*)
(***************************************************************************)
\* without || originalText (a faulty variant, for comparison)
ContentAsIs(content, originalText) == content.text

\* completion.choices[0].message.content || originalText
ContentOrOriginal(content, originalText) ==
    IF content.present /\ content.text # <<>> THEN content.text ELSE originalText

CompletionContents ==
    {[present |-> FALSE, text |-> <<>>], [present |-> TRUE, text |-> <<>>],
     [present |-> TRUE, text |-> <<"c">>], [present |-> TRUE, text |-> <<"a">>]}

\* what chat.completions.create resolves to: no choice, or one choice
Completions ==
    {[kind |-> "completion", choices |-> <<>>]}
      \cup {[kind |-> "completion", choices |-> <<c>>] : c \in CompletionContents}

\* a TypeError: an error without status or code
TypeError == [status |-> 0, code |-> "none", message |-> {}]

OneImprovement ==
    [section |-> SectionTitle(1), missingKeywords |-> <<KeywordText(1)>>,
     suggestedPhrases |-> <<[template |-> 0, keyword |-> KeywordText(1)]>>]

\* req.body / the arguments of enhance; improvements may be undefined
EnhanceRequests ==
    {r \in [via : {"server", "client"},
            initialized : BOOLEAN,
            originalText : {<<>>, <<"a">>, <<"a", "b">>, <<"a", NL, "b">>},
            improvements : {[defined |-> FALSE, items |-> <<>>],
                            [defined |-> TRUE, items |-> <<>>],
                            [defined |-> TRUE, items |-> <<OneImprovement>>]}] :
       r.via = "server" => r.initialized}

\* res.json({ enhancedContent }) / return ...
Enhanced(via, text) ==
    IF via = "server"
    THEN [kind |-> "json", status |-> 200, enhancedContent |-> text]
    ELSE [kind |-> "returned", enhancedContent |-> text]

\* res.status(500).json({ message }) / throw ...
EnhanceFailed(via, error) ==
    IF via = "server"
    THEN [kind |-> "json", status |-> 500, message |-> "enhance_failed"]
    ELSE [kind |-> "thrown", message |-> handleOpenAIError(error)]

EnhInit ==
    /\ enhReq \in EnhanceRequests
    /\ enhPc = "idle"
    /\ enhAnswer = [kind |-> "none"]
    /\ enhOut = [kind |-> "none"]
    /\ SegIdle /\ RunIdle /\ CliIdle /\ FnIdle /\ LimIdle /\ KiIdle /\ LoopIdle /\ SvcIdle /\ DiffIdle

\* the step up to the provider call: the client guard, the prompt
EnhanceBegin ==
    /\ enhPc = "idle"
    /\ IF enhReq.via = "client" /\ ~enhReq.initialized
       THEN /\ enhOut' = [kind |-> "thrown", message |-> "not_initialized"]
            /\ enhPc' = "done"
       ELSE IF ~enhReq.improvements.defined
       THEN /\ enhOut' = IF enhReq.via = "server"
                         THEN EnhanceFailed("server", TypeError)
                         ELSE [kind |-> "thrown", message |-> "type_error"]
            /\ enhPc' = "done"
       ELSE /\ enhPc' = "waiting"
            /\ UNCHANGED enhOut
    /\ UNCHANGED <<enhReq, enhAnswer, segVars, runVars, cliVars, fnVars, limVars, kiVars, loopVars, svcVars, diffVars>>

\* the provider answers with a completion
CompletionFulfilled(completion) ==
    /\ enhPc = "waiting"
    /\ enhAnswer' = completion
    /\ enhOut' = IF completion.choices = <<>>
                 THEN EnhanceFailed(enhReq.via, TypeError)
                 ELSE Enhanced(enhReq.via,
                               ContentOrOriginal(completion.choices[1],
                                                 enhReq.originalText))
    /\ enhPc' = "done"
    /\ UNCHANGED <<enhReq, segVars, runVars, cliVars, fnVars, limVars, kiVars, loopVars, svcVars, diffVars>>

\* the provider call fails
CompletionRejected(error) ==
    /\ enhPc = "waiting"
    /\ enhAnswer' = [kind |-> "error", error |-> error]
    /\ enhOut' = EnhanceFailed(enhReq.via, error)
    /\ enhPc' = "done"
    /\ UNCHANGED <<enhReq, segVars, runVars, cliVars, fnVars, limVars, kiVars, loopVars, svcVars, diffVars>>

EnhNext ==
    \/ EnhanceBegin
    \/ \E completion \in Completions : CompletionFulfilled(completion)
    \/ \E error \in ErrorObjects : CompletionRejected(error)

EnhSpec == EnhInit /\ [][EnhNext]_vars

\* the step succeeded with a text / failed without one
EnhanceSucceeded ==
    /\ enhOut.kind \in {"json", "returned"}
    /\ enhOut.kind = "json" => enhOut.status = 200
    /\ "enhancedContent" \in DOMAIN enhOut

EnhanceFailedWithoutText ==
    /\ enhOut.kind \in {"json", "thrown"}
    /\ enhOut.kind = "json" => enhOut.status = 500
    /\ "enhancedContent" \notin DOMAIN enhOut

\* the content of the completion the provider answered with
AnsweredContent == enhAnswer.choices[1]

\* C19: when the completion provider returns empty content the enhancement
\* step succeeds and returns the original text unchanged; when it returns
\* non-empty content exactly that content is returned; when the provider
\* call fails the step fails and returns no text.
C19_EnhanceOutcomes ==
    /\ (enhAnswer.kind = "completion" /\ enhAnswer.choices # <<>>) =>
         /\ EnhanceSucceeded
         /\ (~AnsweredContent.present \/ AnsweredContent.text = <<>>)
              => enhOut.enhancedContent = enhReq.originalText
         /\ (AnsweredContent.present /\ AnsweredContent.text # <<>>)
              => enhOut.enhancedContent = AnsweredContent.text
    /\ enhAnswer.kind = "error" => EnhanceFailedWithoutText

\* the server answered a null content with the original text
C19_Witness ==
    /\ enhPc = "done"
    /\ enhReq.via = "server"
    /\ enhReq.originalText = <<"a", NL, "b">>
    /\ enhAnswer.kind = "completion" /\ enhAnswer.choices # <<>>
    /\ ~AnsweredContent.present
    /\ enhOut = [kind |-> "json", status |-> 200,
                 enhancedContent |-> <<"a", NL, "b">>]

(***************************************************************************)
(* The browser-side rate limiter (client/src/lib/security.ts): the default *)
(* instance, called at clock times that never decrease.  Times count       *)
(* milliseconds.                                                           *)
(***************************************************************************)
MaxTicks == 3        \* clock advances of the rate limiter

maxAttempts == 10
windowMs == 900000

\* the amounts by which the clock advances between calls: half a window,
\* and one millisecond less
ClockSteps == {windowMs \div 2, windowMs \div 2 - 1}

\* the filter as it would be if an attempt exactly one window old were kept
\* (a faulty variant, for comparison)
RecentAttemptsInclusive(times, clock) ==
    LET Recent(time) == clock - time <= windowMs
    IN  SelectSeq(times, Recent)

\* this.attempts.filter(time => now - time < this.windowMs)
RecentAttempts(times, clock) ==
    LET Recent(time) == clock - time < windowMs
    IN  SelectSeq(times, Recent)

\* getResetTime
getResetTime(times) ==
    IF Len(times) = 0 THEN NoDate
    ELSE LET oldestAttempt ==
                 CHOOSE t \in {times[i] : i \in 1..Len(times)} :
                     \A i \in 1..Len(times) : t <= times[i]
         IN  DateOf(oldestAttempt + windowMs)

\* the record of a canMakeRequest call
CallRecord(clock, result, times, before) ==
    [made |-> TRUE, at |-> clock, result |-> result,
     reset |-> getResetTime(times),
     prev |-> [denied |-> before.made /\ ~before.result, reset |-> before.reset]]

\* this.attempts.length > this.maxAttempts (a faulty variant, for comparison)
AboveLimit(recent) == Len(recent) > maxAttempts

\* this.attempts.length >= this.maxAttempts
AtLimit(recent) == Len(recent) >= maxAttempts

LimInit ==
    /\ attempts = <<>> /\ now = 0 /\ granted = <<>> /\ lastCall = NoCall
    /\ SegIdle /\ RunIdle /\ CliIdle /\ FnIdle /\ EnhIdle /\ KiIdle /\ LoopIdle /\ SvcIdle /\ DiffIdle

\* Date.now() advances
Tick(step) ==
    /\ now + step <= MaxTicks * (windowMs \div 2)
    /\ now' = now + step
    /\ UNCHANGED <<attempts, granted, lastCall, segVars, runVars, cliVars,
                   fnVars, enhVars, kiVars, loopVars, svcVars, diffVars>>

CanMakeRequest ==
    LET recent == RecentAttempts(attempts, now)
    IN  /\ IF AtLimit(recent)
           THEN /\ attempts' = recent
                /\ lastCall' = CallRecord(now, FALSE, attempts', lastCall)
                /\ UNCHANGED granted
           ELSE /\ attempts' = Append(recent, now)
                /\ lastCall' = CallRecord(now, TRUE, attempts', lastCall)
                /\ granted' = Append(granted, now)
        /\ UNCHANGED <<now, segVars, runVars, cliVars, fnVars, enhVars, kiVars, loopVars, svcVars, diffVars>>

\* getRemainingAttempts drops the expired attempts as well
GetRemainingAttempts ==
    /\ attempts' = RecentAttempts(attempts, now)
    /\ UNCHANGED <<now, granted, lastCall, segVars, runVars, cliVars, fnVars,
                   enhVars, kiVars, loopVars, svcVars, diffVars>>

LimNext ==
    \/ \E step \in ClockSteps : Tick(step)
    \/ CanMakeRequest
    \/ GetRemainingAttempts

LimSpec == LimInit /\ [][LimNext]_vars

\* the calls granted before the latest call
GrantedBefore ==
    IF lastCall.made /\ lastCall.result
    THEN SubSeq(granted, 1, Len(granted) - 1)
    ELSE granted

\* how many of the given grant times lie in [from, from + 15 minutes)
GrantsInWindow(times, from) ==
    Cardinality({j \in 1..Len(times) :
                   times[j] >= from /\ times[j] < from + 900000})

\* C20: with the default limiter (10 attempts per 900000 ms) at most 10
\* calls return true within any 15-minute window, and a call is denied
\* whenever 10 granted calls lie within the 15 minutes before it.
C20_AtMostTenPerWindow ==
    /\ \A i \in 1..Len(granted) : GrantsInWindow(granted, granted[i]) <= 10
    /\ (lastCall.made
          /\ Cardinality({j \in 1..Len(GrantedBefore) :
                            lastCall.at - GrantedBefore[j] < 900000}) >= 10)
         => ~lastCall.result

\* a call denied after the window has slid: five grants have expired, five
\* newer ones and five fresh ones fill the window again
C20_Witness ==
    /\ lastCall.made /\ ~lastCall.result
    /\ Len(granted) = 15
    /\ lastCall.at - granted[1] >= 900000
    /\ lastCall.at - granted[6] < 900000

(***************************************************************************)
(* The KeywordInput component (client/src/components/keyword-input.tsx).   *)
(* The textarea's text is a sequence of characters; a keyword is a record  *)
(* [text, role, weight] whose weight is the plain number roleToWeight      *)
(* returns.  An edit of the textarea changes the value prop, which makes   *)
(* the parse effect run; the role actions are the component's handlers.    *)
(***************************************************************************)
MaxChars == 5

KeywordLimit == 50

TextChars == {"a", ",", " ", "NL"}

\* /[\n,]/
Separators == {",", "NL"}

\* what String.prototype.trim removes
Whitespace == {" ", "NL"}

\* a variant of roleToWeight that ignores the role
roleToWeightFlat(role) == 1

\* roleToWeight
roleToWeight(role) == IF role = "main" THEN 3 ELSE 1

\* value.split(/[\n,]/)
RECURSIVE SplitValue(_)
SplitValue(text) ==
    IF \E i \in 1..Len(text) : text[i] \in Separators
    THEN LET i == CHOOSE i \in 1..Len(text) :
                      /\ text[i] \in Separators
                      /\ \A j \in 1..(i - 1) : text[j] \notin Separators
         IN  <<SubSeq(text, 1, i - 1)>>
                 \o SplitValue(SubSeq(text, i + 1, Len(text)))
    ELSE <<text>>

\* String.prototype.trim
RECURSIVE TrimText(_)
TrimText(text) ==
    IF text = <<>> THEN <<>>
    ELSE IF text[1] \in Whitespace THEN TrimText(Tail(text))
    ELSE IF text[Len(text)] \in Whitespace
         THEN TrimText(SubSeq(text, 1, Len(text) - 1))
    ELSE text

\* keywordRoles.map(k => k.text).join(', ')
RECURSIVE JoinTexts(_)
JoinTexts(keywords) ==
    IF keywords = <<>> THEN <<>>
    ELSE IF Len(keywords) = 1 THEN keywords[1].text
    ELSE keywords[1].text \o <<",", " ">> \o JoinTexts(Tail(keywords))

\* the loop over the lines: every non-empty trimmed line becomes a
\* supporting keyword of weight 1
RECURSIVE ParsedKeywords(_)
ParsedKeywords(lines) ==
    IF lines = <<>> THEN <<>>
    ELSE LET trimmed == TrimText(lines[1])
         IN  IF trimmed = <<>> THEN ParsedKeywords(Tail(lines))
             ELSE <<[text |-> trimmed, role |-> "supporting", weight |-> 1]>>
                      \o ParsedKeywords(Tail(lines))

Handed(keywords) == [kind |-> "handed", keywords |-> keywords]

\* the effect on [value]: what it leaves in <<keywordRoles, kiHanded>>
ParseEffect(text, current, handed) ==
    IF text = JoinTexts(current) THEN <<current, handed>>
    ELSE IF TrimText(text) = <<>> THEN <<(<<>>), Handed(<<>>)>>
    ELSE LET limited == Slice(ParsedKeywords(SplitValue(text)), KeywordLimit)
         IN  <<limited, Handed(limited)>>

\* a variant of the demotion that leaves the other keywords alone
KeepOthers(updated, index) == updated

\* updated.forEach: every keyword but the one at index becomes supporting
DemoteOthers(updated, index) ==
    [i \in 1..Len(updated) |->
        IF i # index
        THEN [updated[i] EXCEPT !.role = "supporting",
                                !.weight = roleToWeight("supporting")]
        ELSE updated[i]]

\* the body of updateRole
updateRole(current, index, newRole) ==
    LET updated == IF newRole = "main" THEN DemoteOthers(current, index)
                   ELSE current
    IN  [updated EXCEPT ![index].role = newRole,
                        ![index].weight = roleToWeight(newRole)]

\* the texts one keystroke away: a character inserted or deleted
Edits(text) ==
    {SubSeq(text, 1, i) \o <<c>> \o SubSeq(text, i + 1, Len(text)) :
        i \in 0..Len(text), c \in TextChars}
    \cup {SubSeq(text, 1, i - 1) \o SubSeq(text, i + 1, Len(text)) :
              i \in 1..Len(text)}

KiInit ==
    /\ kiValue = <<>> /\ keywordRoles = <<>> /\ kiHanded = NotHanded
    /\ SegIdle /\ RunIdle /\ CliIdle /\ FnIdle /\ EnhIdle /\ LimIdle /\ LoopIdle /\ SvcIdle /\ DiffIdle

\* the textarea's onChange followed by the effect on [value]
EditText(text) ==
    /\ text # kiValue
    /\ Len(text) <= MaxChars
    /\ kiValue' = text
    /\ \E after \in {ParseEffect(text, keywordRoles, kiHanded)} :
           /\ keywordRoles' = after[1]
           /\ kiHanded' = after[2]
    /\ UNCHANGED <<segVars, runVars, cliVars, fnVars, enhVars, limVars,
                   loopVars, svcVars, diffVars>>

\* the select's onChange
UpdateRole(index, newRole) ==
    /\ index \in 1..Len(keywordRoles)
    /\ keywordRoles' = updateRole(keywordRoles, index, newRole)
    /\ kiHanded' = Handed(keywordRoles')
    /\ UNCHANGED <<kiValue, segVars, runVars, cliVars, fnVars, enhVars,
                   limVars, loopVars, svcVars, diffVars>>

SetAllSupporting ==
    /\ keywordRoles' =
           [i \in 1..Len(keywordRoles) |->
               [keywordRoles[i] EXCEPT
                   !.role = "supporting",
                   !.weight = roleToWeight("supporting")]]
    /\ kiHanded' = Handed(keywordRoles')
    /\ UNCHANGED <<kiValue, segVars, runVars, cliVars, fnVars, enhVars,
                   limVars, loopVars, svcVars, diffVars>>

SetFirstAsMain ==
    /\ Len(keywordRoles) # 0
    /\ keywordRoles' =
           [i \in 1..Len(keywordRoles) |->
               LET role == IF i = 1 THEN "main" ELSE "supporting"
               IN  [keywordRoles[i] EXCEPT !.role = role,
                                           !.weight = roleToWeight(role)]]
    /\ kiHanded' = Handed(keywordRoles')
    /\ UNCHANGED <<kiValue, segVars, runVars, cliVars, fnVars, enhVars,
                   limVars, loopVars, svcVars, diffVars>>

KiNext ==
    \/ \E text \in Edits(kiValue) : EditText(text)
    \/ \E index \in 1..MaxChars, newRole \in {"main", "supporting"} :
           UpdateRole(index, newRole)
    \/ SetAllSupporting
    \/ SetFirstAsMain

KiSpec == KiInit /\ [][KiNext]_vars

\* C21: every keyword handed to onKeywordsChange has weight 3 when its role
\* is 'main' and weight 1 when its role is 'supporting'.
C21_WeightFollowsRole ==
    kiHanded.kind = "handed" =>
        \A i \in 1..Len(kiHanded.keywords) :
            /\ kiHanded.keywords[i].role \in {"main", "supporting"}
            /\ kiHanded.keywords[i].role = "main" =>
                   kiHanded.keywords[i].weight = 3
            /\ kiHanded.keywords[i].role = "supporting" =>
                   kiHanded.keywords[i].weight = 1

\* a main keyword of weight 3 was handed over next to a supporting one of
\* weight 1, and the text has been edited since without losing the roles
C21_Witness ==
    /\ kiHanded.kind = "handed"
    /\ Len(kiHanded.keywords) >= 2
    /\ \E i \in 1..Len(kiHanded.keywords) :
           /\ kiHanded.keywords[i].role = "main"
           /\ kiHanded.keywords[i].weight = 3
    /\ \E i \in 1..Len(kiHanded.keywords) :
           /\ kiHanded.keywords[i].role = "supporting"
           /\ kiHanded.keywords[i].weight = 1
    /\ kiValue = JoinTexts(keywordRoles)

\* how many keywords of a list have the role 'main'
MainCount(keywords) ==
    Cardinality({i \in 1..Len(keywords) : keywords[i].role = "main"})

\* C25: after any sequence of text edits and role actions at most one
\* keyword has the role 'main', in the component's state and in what was
\* handed to onKeywordsChange; and updateRole(index, 'main') leaves the
\* keyword at index as main and every other keyword as supporting.
C25_AtMostOneMain ==
    /\ [](/\ MainCount(keywordRoles) <= 1
          /\ kiHanded.kind = "handed" => MainCount(kiHanded.keywords) <= 1)
    /\ [][\A index \in 1..MaxChars :
              UpdateRole(index, "main") =>
                  /\ kiHanded'.keywords[index].role = "main"
                  /\ \A j \in (1..Len(keywordRoles)) \ {index} :
                         kiHanded'.keywords[j].role = "supporting"]_vars

\* of three keywords the last one is the main one: it was marked by
\* updateRole, and the others are supporting
C25_Witness ==
    /\ kiHanded.kind = "handed"
    /\ Len(kiHanded.keywords) = 3
    /\ kiHanded.keywords[3].role = "main"
    /\ kiHanded.keywords[1].role = "supporting"
    /\ kiHanded.keywords[2].role = "supporting"

(***************************************************************************)
(* calculateWeightedCentroid (and the same lines of POST /api/analyze)     *)
(* applied to one list of keyword embeddings.  Coordinates are whole       *)
(* numbers, weights count tenths, the centroid's coordinates count         *)
(* 1/Scale.                                                                *)
(***************************************************************************)
MaxEmbeddings == 2

CentroidEmbeddings ==
    {<<0, 0>>, <<1, 0>>, <<-1, 0>>, <<0, 1>>, <<1, 1>>, <<2, -1>>}

\* the least weight, and the weights of a supporting and a main keyword
CentroidWeights ==
    {MinWeight, 10 * roleToWeight("supporting"), 10 * roleToWeight("main")}

CentroidInputs ==
    UNION {[1..n -> [embedding : CentroidEmbeddings, weight : CentroidWeights]] :
              n \in 1..MaxEmbeddings}

CentroidInit ==
    /\ fnIn \in CentroidInputs
    /\ fnOut = NotReturned
    /\ SegIdle /\ RunIdle /\ CliIdle /\ EnhIdle /\ LimIdle /\ KiIdle /\ LoopIdle /\ SvcIdle /\ DiffIdle

CalculateWeightedCentroid ==
    /\ fnOut = NotReturned
    /\ fnOut' = Returned(NormalizeCentroid(WeightedCentroid(fnIn)))
    /\ UNCHANGED <<fnIn, segVars, runVars, cliVars, enhVars, limVars, kiVars, loopVars, svcVars, diffVars>>

CentroidNext == CalculateWeightedCentroid

CentroidSpec == CentroidInit /\ [][CentroidNext]_vars

\* the i-th coordinate of the sum of embedding * weight, in tenths
SumOfWeighted(i) ==
    SumSeq([k \in 1..Len(fnIn) |-> fnIn[k].embedding[i] * fnIn[k].weight])

\* the squared L2 norm of that sum
SquaredNorm == SumOfWeighted(1) * SumOfWeighted(1) + SumOfWeighted(2) * SumOfWeighted(2)

\* a coordinate of the centroid in hundredths
Hundredths(x) == MathRound(x.v, Scale \div 100)

\* x and y differ by at most three hundredths of whole, the resolution of
\* squares of numbers kept in hundredths
Within(x, y, whole) == Abs(x - y) <= 3 * (whole \div 100)

\* C22: when the weighted sum of the keyword embeddings is not the zero
\* vector, the centroid's magnitude is 1 and every coordinate of the
\* centroid is the coordinate of the sum divided by the sum's L2 norm (same
\* sign, and equal squares up to the resolution of the fixed-point numbers).
C22_CentroidIsUnitSum ==
    (fnOut.kind = "returned" /\ SquaredNorm # 0) =>
        /\ \A i \in 1..2 : ~fnOut.value[i].nan
        /\ Within(Hundredths(fnOut.value[1]) * Hundredths(fnOut.value[1])
                      + Hundredths(fnOut.value[2]) * Hundredths(fnOut.value[2]),
                  Scale, Scale)
        /\ \A i \in 1..2 :
               /\ SumOfWeighted(i) > 0 => fnOut.value[i].v > 0
               /\ SumOfWeighted(i) < 0 => fnOut.value[i].v < 0
               /\ Within(Hundredths(fnOut.value[i]) * Hundredths(fnOut.value[i])
                             * SquaredNorm,
                         SumOfWeighted(i) * SumOfWeighted(i) * Scale,
                         SquaredNorm * Scale)

\* two keywords of different weights whose embeddings are not parallel:
\* the sum has two non-zero coordinates and its norm is not 1
C22_Witness ==
    /\ fnOut.kind = "returned"
    /\ Len(fnIn) = 2
    /\ fnIn[1].weight # fnIn[2].weight
    /\ SumOfWeighted(1) # 0 /\ SumOfWeighted(2) # 0
    /\ SquaredNorm > 100
    /\ ~fnOut.value[1].nan /\ ~fnOut.value[2].nan

(***************************************************************************)
(* The while loop of chunkText (server/routes.ts and, with the same        *)
(* control flow, client/src/lib/analysis.ts), one iteration at a time.     *)
(* The loop is entered with the words of the text and with chunkSize >     *)
(* overlap >= 0: the defaults, with which every caller runs it, and every  *)
(* small pair of sizes.                                                    *)
(***************************************************************************)
MaxWindow == 3
MaxLoopWords == 7

LoopSizes ==
    {[chunkSize |-> c, overlap |-> o] : c \in 1..MaxWindow, o \in 0..(MaxWindow - 1)}

LoopInputs ==
    {[words |-> SplitWords(PlainDoc(n)), chunkSize |-> ChunkSize, overlap |-> Overlap] :
        n \in 0..MaxWords}
    \cup {[words |-> SplitWords(PlainDoc(n)), chunkSize |-> z.chunkSize, overlap |-> z.overlap] :
             n \in 0..MaxLoopWords, z \in {y \in LoopSizes : y.chunkSize > y.overlap}}

LoopInit ==
    /\ loopIn \in LoopInputs
    /\ loopPc = "while"
    /\ loopStart = 0
    /\ loopChunks = <<>>
    /\ SegIdle /\ RunIdle /\ CliIdle /\ FnIdle /\ EnhIdle /\ LimIdle /\ KiIdle
    /\ SvcIdle /\ DiffIdle

\* one evaluation of the loop condition and, when it holds, one run of the
\* loop body.  The loop condition is false for no input; an iteration count
\* above the number of words would mean the loop does not advance.
WhileIteration ==
    /\ loopPc = "while"
    /\ Len(loopChunks) <= Len(loopIn.words)
    /\ IF ~(loopStart < Len(loopIn.words))
       THEN loopPc' = "done" /\ UNCHANGED <<loopStart, loopChunks>>
       ELSE LET endIndex == Min(loopStart + loopIn.chunkSize, Len(loopIn.words))
                chunk == [text |-> SubSeq(loopIn.words, loopStart + 1, endIndex),
                          startIndex |-> loopStart, endIndex |-> endIndex - 1]
            IN  /\ loopChunks' = Append(loopChunks, chunk)
                /\ IF endIndex >= Len(loopIn.words)
                   THEN loopPc' = "done" /\ UNCHANGED loopStart
                   ELSE /\ loopStart' = NextStart(endIndex, loopIn.overlap)
                        /\ UNCHANGED loopPc
    /\ UNCHANGED <<loopIn, segVars, runVars, cliVars, fnVars, enhVars, limVars,
                   kiVars, svcVars, diffVars>>

\* return chunks
ReturnChunks ==
    /\ loopPc = "done"
    /\ loopPc' = "returned"
    /\ UNCHANGED <<loopIn, loopStart, loopChunks, segVars, runVars, cliVars,
                   fnVars, enhVars, limVars, kiVars, svcVars, diffVars>>

LoopNext == WhileIteration \/ ReturnChunks

LoopSpec == LoopInit /\ [][LoopNext]_vars

\* the loop is a sequential program: it keeps running while it can
LoopFairSpec == LoopSpec /\ WF_vars(LoopNext)

\* the number of words of a window
WindowLength(chunk) == chunk.endIndex - chunk.startIndex + 1

\* C23: the fixed-window loop of chunkText terminates; each new window
\* starts strictly after the previous one; no window before the last one
\* reaches the end of the document and the last one does; and only the last
\* window may be shorter than chunkSize.
C23_LoopTerminates ==
    /\ <>(loopPc = "returned")
    /\ [][loopStart' > loopStart]_loopStart
    /\ [](\A k \in 1..Len(loopChunks) :
             /\ k > 1 => loopChunks[k].startIndex > loopChunks[k - 1].startIndex
             /\ k < Len(loopChunks)
                    => /\ loopChunks[k].endIndex < Len(loopIn.words) - 1
                       /\ WindowLength(loopChunks[k]) = loopIn.chunkSize
             /\ WindowLength(loopChunks[k]) <= loopIn.chunkSize)
    /\ [](loopPc = "returned" =>
             /\ Len(loopChunks) >= 1
             /\ loopChunks[Len(loopChunks)].endIndex = Len(loopIn.words) - 1
             /\ loopChunks
                    = FixedWindows(loopIn.words, 0, loopIn.chunkSize, loopIn.overlap))

\* the loop has returned three windows of the default sizes, the last of
\* them shorter than chunkSize
C23_Witness ==
    /\ loopPc = "returned"
    /\ loopIn.chunkSize = ChunkSize /\ loopIn.overlap = Overlap
    /\ Len(loopChunks) = 3
    /\ WindowLength(loopChunks[3]) < ChunkSize

\* the texts of the units of the run: the keywords, and the sections (or the
\* whole text) of the main and of the competitor copy
UnitTexts ==
    [k \in 1..Len(req.keywords) |-> req.keywords[k].text]
        \o [k \in 1..Len(mainChunks) |-> mainChunks[k].text]
        \o [k \in 1..Len(compChunks) |-> compChunks[k].text]

\* how many embedding requests of the run carry the text
RequestsFor(text) == Cardinality({i \in 1..Len(calls) : calls[i].text = text})

\* C24: within one run the provider is asked at most once for the embedding
\* of each keyword, each section and each whole document: when the run has
\* answered with its result, a text has been requested no more often than
\* there are units with that text.
C24_OneRequestPerUnit ==
    (pc = "done" /\ response.kind = "result") =>
        \A i \in 1..Len(calls) :
            RequestsFor(calls[i].text)
                <= Cardinality({u \in 1..Len(UnitTexts) :
                                    UnitTexts[u] = calls[i].text})

\* the sections chunked mode cuts the two documents into
SectionsOf(body) ==
    <<chunkText(body.mainCopy, ChunkSize, Overlap),
      chunkText(body.competitorCopy, ChunkSize, Overlap)>>

\* the result carries, for the k-th section, that section's text and
\* offsets and the score of that section's own embedding
ScoresOwnSection(results, sections) ==
    /\ Len(results) = Len(sections)
    /\ \A k \in 1..Len(sections) :
           /\ results[k].text = sections[k].text
           /\ results[k].startIndex = sections[k].startIndex
           /\ results[k].endIndex = sections[k].endIndex
           /\ results[k].score
                  = RoundedChunkScore(
                        cosineSimilarity(centroid,
                                         EmbeddingOf(embOf, sections[k].text)))

\* C26: in chunked mode, in whatever order the section-embedding requests of
\* the two batches complete, the result has exactly one SegmentScore per
\* section, and the k-th SegmentScore of a document carries the text and the
\* offsets of that document's k-th section and a score computed from the
\* embedding the provider returned for that same section.
C26_ScoresFollowSections ==
    (pc = "done" /\ response.kind = "result" /\ req.analysisMode = "chunked") =>
        \A sections \in {SectionsOf(req)} :
            /\ ScoresOwnSection(response.mainCopyChunks, sections[1])
            /\ ScoresOwnSection(response.competitorCopyChunks, sections[2])

\* a chunked run has answered for a main copy of two sections whose
\* embeddings, and so whose scores, differ
C26_Witness ==
    /\ pc = "done" /\ response.kind = "result" /\ req.analysisMode = "chunked"
    /\ Len(response.mainCopyChunks) >= 2
    /\ response.mainCopyChunks[1].score # response.mainCopyChunks[2].score
    /\ ~response.mainCopyChunks[1].score.nan
    /\ ~response.mainCopyChunks[2].score.nan

\* C27: in every KeywordCoverage record strongSections and weakSections are
\* disjoint: no section title is listed as both strong and weak for the
\* same keyword, the reclassification that marks all sections weak included.
C27_StrongWeakDisjoint ==
    fnOut.kind = "returned" =>
        \A i \in 1..Len(fnOut.value.strongSections) :
            \A j \in 1..Len(fnOut.value.weakSections) :
                fnOut.value.strongSections[i] # fnOut.value.weakSections[j]

(***************************************************************************)
(* OpenAIClientService under arbitrary calls of initialize, analyze,       *)
(* enhance and destroy.  cpc is the list of the analyze and enhance calls  *)
(* made so far, [method, at]; coutcome is how each of them ended; ccalls   *)
(* are the provider calls issued, each with the client it was sent with;   *)
(* svcLast names the latest call or event.                                 *)
(***************************************************************************)
MaxRuns == 2

ServiceKeys == {<<"pk-", "x">>, <<"sk-", "1">>, <<"sk-", "2">>}

\* the provider's failure of a request: too many requests
ServiceErrors ==
    {error \in ErrorObjects :
        error.status = 429 /\ error.code = "other" /\ error.message = {}}

\* initialize as it would be without the check of the key (a faulty variant,
\* for comparison)
initializeUnchecked(current, apiKey) == apiKey

\* OpenAIClientService.initialize: this.openai afterwards
initialize(current, apiKey) ==
    IF ~StartsWithSk(apiKey) THEN current ELSE apiKey

SvcInit ==
    /\ openai = Null /\ cpc = <<>> /\ ccalls = {} /\ coutcome = <<>>
    /\ svcReady = FALSE /\ svcLast = "none"
    /\ SegIdle /\ RunIdle /\ FnIdle /\ EnhIdle /\ LimIdle /\ KiIdle /\ LoopIdle
    /\ DiffIdle

SvcRest ==
    <<segVars, runVars, fnVars, enhVars, limVars, kiVars, loopVars, diffVars>>

Initialize(apiKey) ==
    /\ openai' = initialize(openai, apiKey)
    /\ svcReady' = (svcReady \/ StartsWithSk(apiKey))
    /\ svcLast' = IF StartsWithSk(apiKey) THEN "initialize" ELSE "rejected"
    /\ UNCHANGED <<cpc, ccalls, coutcome, SvcRest>>

Destroy ==
    /\ openai' = destroy(openai)
    /\ svcReady' = FALSE
    /\ svcLast' = "destroy"
    /\ UNCHANGED <<cpc, ccalls, coutcome, SvcRest>>

\* analyze or enhance up to its first await
Begin(method, stage) ==
    /\ Len(cpc) < MaxRuns
    /\ IF openai = Null
       THEN /\ cpc' = Append(cpc, [method |-> method, at |-> "done"])
            /\ coutcome' = Append(coutcome,
                                  Outcome("error", "not_initialized", "client"))
            /\ UNCHANGED ccalls
       ELSE /\ cpc' = Append(cpc, [method |-> method, at |-> stage])
            /\ coutcome' = Append(coutcome, NoOutcome)
            /\ ccalls' = ccalls \cup {ClientCall(Len(cpc) + 1, stage, openai)}
    /\ svcLast' = method
    /\ UNCHANGED <<openai, svcReady, SvcRest>>

Analyze == Begin("analyze", "keyword")

Enhance == Begin("enhance", "completion")

Ended(r, outcome) ==
    /\ cpc' = [cpc EXCEPT ![r].at = "done"]
    /\ coutcome' = [coutcome EXCEPT ![r] = outcome]

\* the keyword embeddings arrive: performFullAnalysis or analyzeChunks throws
\* when this.openai is null, and else sends its requests with this.openai
SvcKeywordsAnswered(r) ==
    /\ cpc[r].at = "keyword"
    /\ IF openai = Null
       THEN /\ Ended(r, Outcome("error",
                                handleOpenAIError([status |-> 0, code |-> "none",
                                                   message |-> {}]),
                                "client"))
            /\ UNCHANGED ccalls
       ELSE /\ ccalls' = ccalls \cup {ClientCall(r, "document", openai)}
            /\ cpc' = [cpc EXCEPT ![r].at = "document"]
            /\ UNCHANGED coutcome
    /\ svcLast' = "answer"
    /\ UNCHANGED <<openai, svcReady, SvcRest>>

\* the last answer a run waits for arrives: the run returns
SvcAnswered(r) ==
    /\ cpc[r].at \in {"document", "completion"}
    /\ Ended(r, Outcome("result", "none", "none"))
    /\ svcLast' = "answer"
    /\ UNCHANGED <<openai, ccalls, svcReady, SvcRest>>

SvcProviderFails(r) ==
    /\ cpc[r].at \in {"keyword", "document", "completion"}
    /\ \E error \in ServiceErrors :
         Ended(r, Outcome("error", handleOpenAIError(error), "provider"))
    /\ svcLast' = "answer"
    /\ UNCHANGED <<openai, ccalls, svcReady, SvcRest>>

SvcNext ==
    \/ \E apiKey \in ServiceKeys : Initialize(apiKey)
    \/ Destroy
    \/ Analyze
    \/ Enhance
    \/ \E r \in 1..MaxRuns :
           /\ r <= Len(cpc)
           /\ \/ SvcKeywordsAnswered(r)
              \/ SvcAnswered(r)
              \/ SvcProviderFails(r)

SvcSpec == SvcInit /\ [][SvcNext]_vars

\* this.openai is the same before and after
SameClient(after, before) ==
    IF before = Null THEN after = Null
    ELSE IF after = Null THEN FALSE
    ELSE after = before

\* C28: a provider call is issued only while the client is initialized
\* (a successful initialize has occurred since construction or since the
\* latest destroy), and with that client; analyze and enhance called while
\* it is not fail with 'OpenAI client not initialized' and issue no call;
\* an initialize rejected for a key that does not start with 'sk-' leaves
\* the client state unchanged.
C28_CallsOnlyWhileInitialized ==
    /\ [][ccalls' # ccalls =>
              /\ svcReady
              /\ \A c \in ccalls' \ ccalls : c.credential = openai]_vars
    /\ [][(svcLast' \in {"analyze", "enhance"} /\ ~svcReady) =>
              /\ ccalls' = ccalls
              /\ Len(coutcome') = Len(coutcome) + 1
              /\ coutcome'[Len(coutcome')]
                     = Outcome("error", "not_initialized", "client")]_vars
    /\ [][svcLast' = "rejected" =>
              /\ SameClient(openai', openai)
              /\ UNCHANGED <<cpc, ccalls, coutcome, svcReady>>]_vars
    /\ [](svcReady <=> openai # Null)

\* an analyze call made after a destroy has failed without a provider call,
\* while an earlier call, made after initialize, sent its requests
C28_Witness ==
    /\ Len(cpc) = 2
    /\ coutcome[1].kind = "result"
    /\ coutcome[2] = Outcome("error", "not_initialized", "client")
    /\ \A c \in ccalls : c.run = 1
    /\ ccalls # {}
    /\ openai # Null

\* C29: a denied canMakeRequest call records no attempt, and the call that
\* follows a denied call is granted when it is made at or after the time
\* getResetTime returned after that denial (the oldest recorded attempt plus
\* the window); by induction, so is the first call at or after the reset
\* time that follows any number of denied calls.
C29_DeniedCallsDoNotExtend ==
    /\ [](lastCall.made /\ lastCall.prev.denied
            /\ lastCall.prev.reset.kind = "date"
            /\ lastCall.at >= lastCall.prev.reset.time
          => lastCall.result)
    /\ [](lastCall.made /\ lastCall.prev.denied /\ ~lastCall.result
          => lastCall.reset = lastCall.prev.reset)
    /\ [][(lastCall' # lastCall /\ ~lastCall'.result) =>
              /\ Len(attempts') <= Len(attempts)
              /\ \A i \in 1..Len(attempts') :
                     \E j \in 1..Len(attempts) : attempts'[i] = attempts[j]]_vars

\* a call made exactly at the reset time of the denial before it was granted
C29_Witness ==
    /\ lastCall.made /\ lastCall.result
    /\ lastCall.prev.denied
    /\ lastCall.prev.reset.kind = "date"
    /\ lastCall.at = lastCall.prev.reset.time

\* a call made one millisecond before the reset time of the denial before it
\* was denied, and the reset time stayed the same
C29_StillLocked ==
    /\ lastCall.made /\ ~lastCall.result
    /\ lastCall.prev.denied
    /\ lastCall.at = lastCall.prev.reset.time - 1

(***************************************************************************)
(* calculateContextualDiff (client/src/lib/security.ts), one iteration of  *)
(* its outer loop at a time.  A segment is [type, text] with the text kept *)
(* as the words that are joined into it; the context, keywordAdded and     *)
(* reason of an added segment do not steer the loop and are left out.      *)
(***************************************************************************)
MaxDiffWords == 3

DiffAtoms == {"a", "b", NL}

DiffTexts == UNION {[1..n -> DiffAtoms] : n \in 0..MaxDiffWords}

\* the inner loop of the first branch as it would be without the comparison
\* of the words (a faulty variant, for comparison)
MatchLengthUncompared(originalWords, enhancedWords, i, j) ==
    Min(Len(originalWords) - i, Len(enhancedWords) - j)

\* the inner loop of the first branch: how many words from i and j on are
\* pairwise equal
RECURSIVE MatchLength(_, _, _, _)
MatchLength(originalWords, enhancedWords, i, j) ==
    IF i < Len(originalWords) /\ j < Len(enhancedWords)
           /\ originalWords[i + 1] = enhancedWords[j + 1]
    THEN 1 + MatchLength(originalWords, enhancedWords, i + 1, j + 1)
    ELSE 0

\* originalWords.slice(i).includes(word)
IncludedFrom(originalWords, i, word) ==
    \E k \in (i + 1)..Len(originalWords) : originalWords[k] = word

\* the inner loop of the second branch, entered with nextMatchJ = j + 1
RECURSIVE NextMatch(_, _, _, _)
NextMatch(originalWords, enhancedWords, i, nextMatchJ) ==
    IF nextMatchJ < Len(enhancedWords)
           /\ ~IncludedFrom(originalWords, i, enhancedWords[nextMatchJ + 1])
    THEN NextMatch(originalWords, enhancedWords, i, nextMatchJ + 1)
    ELSE nextMatchJ

Segment(type, words) == [type |-> type, text |-> words]

DiffInit ==
    /\ diffIn \in {[originalWords |-> SplitWords(original),
                    enhancedWords |-> SplitWords(enhanced)] :
                       original \in DiffTexts, enhanced \in DiffTexts}
    /\ diffPc = "while" /\ diffI = 0 /\ diffJ = 0 /\ diffSegments = <<>>
    /\ SegIdle /\ RunIdle /\ CliIdle /\ FnIdle /\ EnhIdle /\ LimIdle /\ KiIdle
    /\ LoopIdle /\ SvcIdle

\* one evaluation of the loop condition and, when it holds, one run of the
\* loop body
DiffIteration ==
    /\ diffPc = "while"
    /\ LET originalWords == diffIn.originalWords
           enhancedWords == diffIn.enhancedWords
       IN  IF ~(diffI < Len(originalWords) \/ diffJ < Len(enhancedWords))
           THEN /\ diffPc' = "done"
                /\ UNCHANGED <<diffI, diffJ, diffSegments>>
           ELSE IF /\ diffI < Len(originalWords) /\ diffJ < Len(enhancedWords)
                   /\ originalWords[diffI + 1] = enhancedWords[diffJ + 1]
           THEN \E n \in {MatchLength(originalWords, enhancedWords, diffI, diffJ)} :
                    /\ diffSegments' =
                           Append(diffSegments,
                                  Segment("unchanged",
                                          SubSeq(originalWords, diffI + 1, diffI + n)))
                    /\ diffI' = diffI + n
                    /\ diffJ' = diffJ + n
                    /\ UNCHANGED diffPc
           ELSE IF diffJ < Len(enhancedWords)
           THEN \E nextMatchJ \in {NextMatch(originalWords, enhancedWords,
                                             diffI, diffJ + 1)} :
                    /\ diffSegments' =
                           Append(diffSegments,
                                  Segment("added",
                                          SubSeq(enhancedWords, diffJ + 1, nextMatchJ)))
                    /\ diffJ' = nextMatchJ
                    /\ UNCHANGED <<diffI, diffPc>>
           ELSE /\ diffSegments' =
                       Append(diffSegments,
                              Segment("removed",
                                      SubSeq(originalWords, diffI + 1,
                                             Len(originalWords))))
                /\ diffPc' = "done"
                /\ UNCHANGED <<diffI, diffJ>>
    /\ UNCHANGED <<diffIn, segVars, runVars, cliVars, fnVars, enhVars, limVars,
                   kiVars, loopVars, svcVars>>

\* return segments
ReturnSegments ==
    /\ diffPc = "done"
    /\ diffPc' = "returned"
    /\ UNCHANGED <<diffIn, diffI, diffJ, diffSegments, segVars, runVars,
                   cliVars, fnVars, enhVars, limVars, kiVars, loopVars, svcVars>>

DiffNext == DiffIteration \/ ReturnSegments

DiffSpec == DiffInit /\ [][DiffNext]_vars

\* the function is a sequential program: it keeps running while it can
DiffFairSpec == DiffSpec /\ WF_vars(DiffNext)

\* the words of the segments of the given types, in order
RECURSIVE WordsOfTypes(_, _)
WordsOfTypes(segments, types) ==
    IF segments = <<>> THEN <<>>
    ELSE (IF segments[1].type \in types THEN segments[1].text ELSE <<>>)
             \o WordsOfTypes(Tail(segments), types)

\* C30: calculateContextualDiff terminates, and of the returned segments
\* taken in order the words of the 'unchanged' and 'added' ones are the
\* enhanced text's words and the words of the 'unchanged' and 'removed'
\* ones are the original text's words.
C30_DiffCoversBothTexts ==
    /\ <>(diffPc = "returned")
    /\ [](diffPc = "returned" =>
             /\ WordsOfTypes(diffSegments, {"unchanged", "added"})
                    = diffIn.enhancedWords
             /\ WordsOfTypes(diffSegments, {"unchanged", "removed"})
                    = diffIn.originalWords)

\* the diff has returned with an unchanged, an added and a removed segment,
\* the added one before a word both texts share
C30_Witness ==
    /\ diffPc = "returned"
    /\ Len(diffSegments) >= 3
    /\ \E k \in 1..(Len(diffSegments) - 1) :
           /\ diffSegments[k].type = "added"
           /\ diffSegments[k + 1].type = "unchanged"
    /\ \E k \in 1..Len(diffSegments) : diffSegments[k].type = "removed"

=============================================================================
